---------------------------- MODULE Spec2Model ----------------------------
(***************************************************************************)
(* Model of the learned-correction engine of LeitorAtestados               *)
(* (src/services/ai_service.py, src/train_ai.py).                          *)
(*                                                                         *)
(* Strings are sequences of code points (naturals below 256, the Latin-1   *)
(* range that Portuguese OCR text lives in).  Python's str methods and the *)
(* regular expressions of the source are computed on these sequences.      *)
(***************************************************************************)
EXTENDS Naturals, Integers, Sequences, FiniteSets, TLC

(***************************************************************************)
(* Characters: the classes Python's str/re use, restricted to Latin-1.     *)
(***************************************************************************)

\* str.isspace(), the separators of str.split() / str.strip(), and re's \s
WS == (9..13) \cup (28..32) \cup {133, 160}

\* re's \w for str patterns (alphanumerics and the underscore)
WordCh == (48..57) \cup (65..90) \cup {95} \cup (97..122) \cup {170, 178, 179, 181}
          \cup {185, 186} \cup (188..190) \cup (192..214) \cup (216..246) \cup (248..255)

\* re's \d for the ASCII digits of the sample texts
Digit == 48..57

\* str.isupper() of one character
IsUpper(c) == c \in ((65..90) \cup (192..214) \cup (216..222))

\* str.lower() of one character
Lower(c) == IF IsUpper(c) THEN c + 32 ELSE c

\* str.lower()
lower(s) == [i \in 1..Len(s) |-> Lower(s[i])]

\* str.upper() of one character: a sequence, because "ß".upper() is "SS";
\* "ÿ" and "µ" leave Latin-1 (U+0178, U+039C)
UpperCh(c) == IF c \in ((97..122) \cup (224..246) \cup (248..254)) THEN <<c - 32>>
              ELSE IF c = 223 THEN <<83, 83>>
              ELSE IF c = 255 THEN <<376>>
              ELSE IF c = 181 THEN <<924>>
              ELSE <<c>>

RECURSIVE upper(_)
\* str.upper(); only "ß" changes the length
upper(s) ==
    IF \A i \in 1..Len(s) : s[i] # 223 THEN [i \in 1..Len(s) |-> UpperCh(s[i])[1]]
    ELSE LET k == CHOOSE i \in 1..Len(s) : s[i] = 223
         IN  upper(SubSeq(s, 1, k - 1)) \o <<83, 83>> \o upper(SubSeq(s, k + 1, Len(s)))

\* the characters c that a class matches under re.IGNORECASE
IC(set) == set \cup {c \in 0..255 : Lower(c) \in set \/ (Len(UpperCh(c)) = 1 /\ UpperCh(c)[1] \in set)}

(***************************************************************************)
(* String helpers                                                          *)
(***************************************************************************)

\* re.sub(r'[set]', '', s)
RemoveAll(s, set) == SelectSeq(s, LAMBDA c : c \notin set)

\* re.sub(r'[set]+', rep, s): every maximal run of set becomes the one character rep
CollapseRuns(s, set, rep) ==
    LET marked == [i \in 1..Len(s) |->
                     IF s[i] \notin set THEN s[i]
                     ELSE IF i > 1 /\ s[i-1] \in set THEN -1 ELSE rep]
    IN  SelectSeq(marked, LAMBDA c : c # -1)

\* str.strip()
strip(s) ==
    LET keep == {i \in 1..Len(s) : s[i] \notin WS}
    IN  IF keep = {} THEN <<>>
        ELSE LET a == CHOOSE i \in keep : \A j \in keep : i <= j
                 b == CHOOSE i \in keep : \A j \in keep : i >= j
             IN  SubSeq(s, a, b)

\* the positions where a whitespace-separated token starts
TokenStarts(s) == {i \in 1..Len(s) : s[i] \notin WS /\ (i = 1 \/ s[i-1] \in WS)}

RECURSIVE TokenEnd(_, _)
\* the last position of the token that holds position i
TokenEnd(s, i) == IF i = Len(s) \/ s[i+1] \in WS THEN i ELSE TokenEnd(s, i + 1)

\* set(s.split())
SplitSet(s) == {SubSeq(s, i, TokenEnd(s, i)) : i \in TokenStarts(s)}

\* "needle in s"
Contains(s, needle) ==
    \E i \in 1..(Len(s) - Len(needle) + 1) : SubSeq(s, i, i + Len(needle) - 1) = needle

(***************************************************************************)
(* Text normalization                                                      *)
(***************************************************************************)

\* the C0/C1 control characters removed by _normalize_text
ControlChars == (0..8) \cup (11..12) \cup (14..31) \cup (127..159)

\* AIService._normalize_text
_normalize_text(text) ==
    LET t1 == RemoveAll(text, ControlChars)
        t2 == CollapseRuns(t1, {32, 9}, 32)
        t3 == CollapseRuns(t2, {10}, 10)
    IN  strip(t3)

\* AIService._normalize_for_comparison
_normalize_for_comparison(text) ==
    LET t1 == CollapseRuns(strip(lower(text)), WS, 32)
    IN  RemoveAll(t1, (0..255) \ (WordCh \cup WS))

(***************************************************************************)
(* Regular expressions: a backtracking matcher with Python's priorities    *)
(* (leftmost start, alternatives in order, greedy repeats).  A pattern is  *)
(* a tree of nodes; the matcher walks a continuation, the sequence of      *)
(* nodes still to match.                                                    *)
(***************************************************************************)

\* one character out of a set
Cls(set) == [t |-> "cls", s |-> set]
\* the literal string lit, case-sensitive / under re.IGNORECASE
Lit(lit) == [t |-> "cat", a |-> [i \in 1..Len(lit) |-> Cls({lit[i]})]]
LitI(lit) == [t |-> "cat", a |-> [i \in 1..Len(lit) |-> Cls(IC({lit[i]}))]]
Cat(nodes) == [t |-> "cat", a |-> nodes]
Alt(nodes) == [t |-> "alt", a |-> nodes]
\* r{lo,hi}, greedy; hi = -1 is "no upper limit"
Rep(r, lo, hi) == [t |-> "rep", r |-> r, lo |-> lo, hi |-> hi]
Opt(r) == Rep(r, 0, 1)
Star(r) == Rep(r, 0, -1)
Plus(r) == Rep(r, 1, -1)
\* capturing group number k
Grp(k, r) == [t |-> "grp", k |-> k, r |-> r]
\* \b and $
WordBoundary == [t |-> "wb"]
EndOfString == [t |-> "eos"]

\* the groups of a match that took no part in it (None in Python)
NoGroups == <<<<0, -1>>, <<0, -1>>, <<0, -1>>>>
NoMatch == [ok |-> FALSE, start |-> 0, end |-> 0, caps |-> NoGroups]

\* \b at position i (between s[i-1] and s[i])
AtWordBoundary(s, i) ==
    LET before == i > 1 /\ s[i-1] \in WordCh
        after == i <= Len(s) /\ s[i] \in WordCh
    IN  before # after

\* $ at position i: the end, or just before a final line break
AtEnd(s, i) == i = Len(s) + 1 \/ (i = Len(s) /\ s[i] = 10)

\* the number of characters from position i on that lie in set, at most hi
\* (hi = -1: no limit)
RunLength(s, i, set, hi) ==
    LET stop == {j \in i..(Len(s) + 1) : j > Len(s) \/ s[j] \notin set}
        run == (CHOOSE j \in stop : \A k \in stop : j <= k) - i
    IN  IF hi >= 0 /\ run > hi THEN hi ELSE run

RECURSIVE MatchHere(_, _, _, _)
RECURSIVE RepeatClass(_, _, _, _, _, _)
\* a greedy repeat of a one-character class: take count characters, and on
\* failure of the rest give them back one at a time, down to lo
RepeatClass(rest, s, i, caps, count, lo) ==
    IF count < lo THEN NoMatch
    ELSE LET r == MatchHere(rest, s, i + count, caps)
         IN  IF r.ok THEN r ELSE RepeatClass(rest, s, i, caps, count - 1, lo)

\* match the continuation k at position i of s; the first success in priority order
MatchHere(k, s, i, caps) ==
    IF k = <<>> THEN [ok |-> TRUE, start |-> 0, end |-> i, caps |-> caps]
    ELSE LET n == Head(k)
             rest == Tail(k)
         IN  CASE n.t = "cls" ->
                    IF i <= Len(s) /\ s[i] \in n.s THEN MatchHere(rest, s, i + 1, caps)
                    ELSE NoMatch
               [] n.t = "cat" -> MatchHere(n.a \o rest, s, i, caps)
               [] n.t = "alt" ->
                    IF n.a = <<>> THEN NoMatch
                    ELSE LET first == MatchHere(<<Head(n.a)>> \o rest, s, i, caps)
                         IN  IF first.ok THEN first
                             ELSE MatchHere(<<Alt(Tail(n.a))>> \o rest, s, i, caps)
               [] n.t = "rep" ->
                    IF n.hi = 0 THEN MatchHere(rest, s, i, caps)
                    ELSE IF n.r.t = "cls"
                    THEN RepeatClass(rest, s, i, caps, RunLength(s, i, n.r.s, n.hi), n.lo)
                    ELSE LET lo1 == IF n.lo > 0 THEN n.lo - 1 ELSE 0
                             hi1 == IF n.hi > 0 THEN n.hi - 1 ELSE n.hi
                             more == MatchHere(<<n.r, Rep(n.r, lo1, hi1)>> \o rest, s, i, caps)
                         IN  IF more.ok THEN more
                             ELSE IF n.lo = 0 THEN MatchHere(rest, s, i, caps)
                             ELSE NoMatch
               [] n.t = "grp" ->
                    MatchHere(<<n.r, [t |-> "close", k |-> n.k, from |-> i]>> \o rest, s, i, caps)
               [] n.t = "close" ->
                    MatchHere(rest, s, i, [caps EXCEPT ![n.k] = <<n.from, i - 1>>])
               [] n.t = "wb" ->
                    IF AtWordBoundary(s, i) THEN MatchHere(rest, s, i, caps) ELSE NoMatch
               [] n.t = "eos" ->
                    IF AtEnd(s, i) THEN MatchHere(rest, s, i, caps) ELSE NoMatch

\* the match of re that starts at position j
MatchAt(re, s, j) == [MatchHere(<<re>>, s, j, NoGroups) EXCEPT !.start = j]

\* the match at the least of the start positions given
Leftmost(re, s, starts) ==
    IF starts = {} THEN NoMatch
    ELSE MatchAt(re, s, CHOOSE a \in starts : \A b \in starts : a <= b)

\* re.search from position i on: the leftmost match
SearchFrom(re, s, i) ==
    Leftmost(re, s, {j \in i..(Len(s) + 1) : MatchHere(<<re>>, s, j, NoGroups).ok})

\* re.search(re, s)
Search(re, s) == SearchFrom(re, s, 1)

RECURSIVE FindIterFrom(_, _, _)
\* the match m and the matches after it; an empty match moves on one character
MatchAndRest(re, s, m) ==
    IF ~m.ok THEN <<>>
    ELSE <<m>> \o FindIterFrom(re, s, IF m.end > m.start THEN m.end ELSE m.end + 1)

\* re.finditer(re, s): the non-overlapping matches, left to right
FindIterFrom(re, s, i) == MatchAndRest(re, s, SearchFrom(re, s, i))

FindIter(re, s) == FindIterFrom(re, s, 1)

\* match.group(k); <<>> stands for a group that did not take part
Group(s, m, k) == SubSeq(s, m.caps[k][1], m.caps[k][2])

(***************************************************************************)
(* Field extractors of AIService (the pattern cascade)                     *)
(***************************************************************************)

\* a missing candidate (None); no extractor returns an empty string
None == <<>>

\* the first candidate, or the second when the first is None
OrElse(first, second) == IF first # None THEN first ELSE second

\* [:\s\-]
ColonSpaceDash == WS \cup {58, 45}
\* [:\s]
ColonSpace == WS \cup {58}

\* ([A-Z]\d{2,3}(?:\.\d{1,2})?) under re.IGNORECASE, as group 1
CidToken == Grp(1, Cat(<<Cls(IC(65..90)), Rep(Cls(Digit), 2, 3),
                         Opt(Cat(<<Cls({46}), Rep(Cls(Digit), 1, 2)>>))>>))

\* (?:10[:\s\-]*)?
TenQualifier == Opt(Cat(<<Lit(<<49, 48>>), Star(Cls(ColonSpaceDash))>>))

\* the three contextual patterns of _extract_cid_smart, in cascade order
CidPatterns == <<
    \* CID[:\s\-]*(?:10[:\s\-]*)?(<code>)
    Cat(<<LitI(<<67, 73, 68>>), Star(Cls(ColonSpaceDash)), TenQualifier, CidToken>>),
    \* C\.?\s*I\.?\s*D\.?\s*(?:10[:\s\-]*)?[:\s\-]*(<code>)
    Cat(<<LitI(<<67>>), Opt(Cls({46})), Star(Cls(WS)), LitI(<<73>>), Opt(Cls({46})), Star(Cls(WS)),
          LitI(<<68>>), Opt(Cls({46})), Star(Cls(WS)), TenQualifier, Star(Cls(ColonSpaceDash)),
          CidToken>>),
    \* (?:diagn[oó]stico|c[oó]digo)[:\s]*(<code>)
    Cat(<<Alt(<<Cat(<<LitI(<<100, 105, 97, 103, 110>>), Cls(IC({111, 243})), LitI(<<115, 116, 105, 99, 111>>)>>),
                Cat(<<LitI(<<99>>), Cls(IC({111, 243})), LitI(<<100, 105, 103, 111>>)>>)>>),
          Star(Cls(ColonSpace)), CidToken>>) >>

\* AIService._validate_cid: at least 3 characters, a first letter of the category
\* table (A..Z), and the shape ^[A-Z]\d{2,3}(?:\.\d{1,2})?$ (case-sensitive)
_validate_cid(cid) ==
    /\ Len(cid) >= 3
    /\ Len(UpperCh(cid[1])) = 1 /\ UpperCh(cid[1])[1] \in 65..90
    /\ MatchHere(<<Cls(65..90), Rep(Cls(Digit), 2, 3),
                   Opt(Cat(<<Cls({46}), Rep(Cls(Digit), 1, 2)>>)), EndOfString>>,
                 cid, 1, NoGroups).ok

RECURSIVE FirstValidCid(_, _)
\* the first match of a finditer whose upper-cased group 1 validates
FirstValidCid(s, matches) ==
    IF matches = <<>> THEN None
    ELSE LET cid == upper(Group(s, Head(matches), 1))
         IN  IF _validate_cid(cid) THEN cid ELSE FirstValidCid(s, Tail(matches))

RECURSIVE CidCascade(_, _)
\* for pattern in patterns: for match in finditer: return the first valid code
CidCascade(s, patterns) ==
    IF patterns = <<>> THEN None
    ELSE OrElse(FirstValidCid(s, FindIter(Head(patterns), s)), CidCascade(s, Tail(patterns)))

RECURSIVE SplitOn(_, _)
\* s.split(sep) for a one-character separator: never empty, may hold empty items
SplitOn(s, sep) ==
    IF \A i \in 1..Len(s) : s[i] # sep THEN <<s>>
    ELSE LET k == CHOOSE i \in 1..Len(s) : s[i] = sep /\ \A j \in 1..(i-1) : s[j] # sep
         IN  <<SubSeq(s, 1, k - 1)>> \o SplitOn(SubSeq(s, k + 1, Len(s)), sep)

RECURSIVE Join(_, _)
\* sep.join(items)
Join(items, sep) ==
    IF items = <<>> THEN <<>>
    ELSE IF Len(items) = 1 THEN items[1]
    ELSE items[1] \o sep \o Join(Tail(items), sep)

\* medical_keywords of _extract_cid_smart (lower-case in the source)
MedicalKeywords == {<<99, 105, 100>>, <<100, 105, 97, 103, 110, 243, 115, 116, 105, 99, 111>>, <<100, 111, 101, 110, 231, 97>>, <<99, 243, 100, 105, 103, 111>>, <<99, 108, 97, 115, 115, 105, 102, 105, 99, 97, 231, 227, 111>>}

\* \b(<code>)\b under re.IGNORECASE
StandaloneCid == Cat(<<WordBoundary, CidToken, WordBoundary>>)

\* the context of line i: two lines either side, joined and upper-cased
LineContext(lines, i) ==
    upper(Join(SubSeq(lines, IF i - 2 > 1 THEN i - 2 ELSE 1,
                      IF i + 2 < Len(lines) THEN i + 2 ELSE Len(lines)), <<32>>))

\* the code of a stand-alone match m on a line: upper-cased, kept when the
\* context holds a keyword and the code validates
CidInContext(line, context, m) ==
    IF /\ \E kw \in MedicalKeywords : Contains(context, kw)
       /\ m.ok
       /\ _validate_cid(upper(Group(line, m, 1)))
    THEN upper(Group(line, m, 1))
    ELSE None

RECURSIVE CidNearKeyword(_, _)
\* the line loop of _extract_cid_smart: the first line that gives a code
CidNearKeyword(lines, i) ==
    IF i > Len(lines) THEN None
    ELSE OrElse(CidInContext(lines[i], LineContext(lines, i), Search(StandaloneCid, lines[i])),
                CidNearKeyword(lines, i + 1))

\* AIService._extract_cid_smart
_extract_cid_smart(text) ==
    OrElse(CidCascade(text, CidPatterns), CidNearKeyword(SplitOn(text, 10), 1))

\* [A-ZÁÉÍÓÚÂÊÔÃÕÇ] and [A-Za-zÀ-ÿ] under re.IGNORECASE
NameInitial == IC((65..90) \cup {193, 201, 205, 211, 218, 194, 202, 212, 195, 213, 199})
NameLetter == IC((65..90) \cup (97..122) \cup (192..255))

\* one name word, [A-ZÁÉÍÓÚÂÊÔÃÕÇ][A-Za-zÀ-ÿ]+
NameWord == Cat(<<Cls(NameInitial), Plus(Cls(NameLetter))>>)

\* (<word>(?:\s+<word>){1,4}) as group 1
NameToken == Grp(1, Cat(<<NameWord, Rep(Cat(<<Plus(Cls(WS)), NameWord>>), 1, 4)>>))

\* the three patterns of _extract_doctor_smart, in cascade order
DoctorPatterns == <<
    \* (?:Dr|Dra|DR|DRA|Doutor|Doutora)\.?\s+(<name>)
    Cat(<<Alt(<<LitI(<<68, 114>>), LitI(<<68, 114, 97>>), LitI(<<68, 82>>), LitI(<<68, 82, 65>>),
                LitI(<<68, 111, 117, 116, 111, 114>>), LitI(<<68, 111, 117, 116, 111, 114, 97>>)>>),
          Opt(Cls({46})), Plus(Cls(WS)), NameToken>>),
    \* Assinado\s+por[:\s]+(<name>)
    Cat(<<LitI(<<65, 115, 115, 105, 110, 97, 100, 111>>), Plus(Cls(WS)), LitI(<<112, 111, 114>>), Plus(Cls(ColonSpace)), NameToken>>),
    \* M[eé]dico[:\s]+(<name>)
    Cat(<<LitI(<<77>>), Cls(IC({101, 233})), LitI(<<100, 105, 99, 111>>), Plus(Cls(ColonSpace)), NameToken>>) >>

\* . (any character but a line break)
AnyChar == (0..255) \ {10}

RECURSIVE Cut(_, _, _)
\* s without the matches given (re.sub with an empty replacement); from is the
\* first position not yet copied
Cut(s, matches, from) ==
    IF matches = <<>> THEN SubSeq(s, from, Len(s))
    ELSE SubSeq(s, from, Head(matches).start - 1) \o Cut(s, Tail(matches), Head(matches).end)

\* re.sub(re, '', s)
Sub(re, s) == Cut(s, FindIter(re, s), 1)

\* AIService._looks_like_name: at least two words, each starting in upper case
_looks_like_name(text) ==
    /\ Cardinality(TokenStarts(text)) >= 2
    /\ \A i \in TokenStarts(text) : IsUpper(text[i])

\* \s*CRM.*$ under re.IGNORECASE
CrmTail == Cat(<<Star(Cls(WS)), LitI(<<67, 82, 77>>), Star(Cls(AnyChar)), EndOfString>>)
\* \s*\d+.*$
NumberTail == Cat(<<Star(Cls(WS)), Plus(Cls(Digit)), Star(Cls(AnyChar)), EndOfString>>)

\* the clean-up of a captured name: strip, then cut "CRM..." and a trailing number
CleanDoctorName(name) == Sub(NumberTail, Sub(CrmTail, strip(name)))

\* a cleaned name that is long enough and looks like a name, or None
ValidName(name) == IF Len(name) > 3 /\ _looks_like_name(name) THEN name ELSE None

RECURSIVE FirstValidName(_, _)
\* the first match of a finditer whose cleaned group 1 looks like a name
FirstValidName(s, matches) ==
    IF matches = <<>> THEN None
    ELSE OrElse(ValidName(CleanDoctorName(Group(s, Head(matches), 1))),
                FirstValidName(s, Tail(matches)))

RECURSIVE DoctorCascade(_, _)
\* for pattern in patterns: for match in finditer: return the first valid name
DoctorCascade(s, patterns) ==
    IF patterns = <<>> THEN None
    ELSE OrElse(FirstValidName(s, FindIter(Head(patterns), s)), DoctorCascade(s, Tail(patterns)))

\* AIService._extract_doctor_smart
_extract_doctor_smart(text) == DoctorCascade(text, DoctorPatterns)

\* int(s) for a string of ASCII digits
RECURSIVE ToInt(_)
ToInt(s) == IF s = <<>> THEN 0 ELSE 10 * ToInt(SubSeq(s, 1, Len(s) - 1)) + (s[Len(s)] - 48)

RECURSIVE ToStr(_)
\* str(n) for a natural number
ToStr(n) == IF n < 10 THEN <<48 + n>> ELSE ToStr(n \div 10) \o <<48 + (n % 10)>>

\* str.zfill(2)
zfill2(s) == IF Len(s) < 2 THEN [i \in 1..(2 - Len(s)) |-> 48] \o s ELSE s

\* datetime.now().year, read from the environment's clock
CurrentYear == 2025

\* the number of days of a month of the proleptic Gregorian calendar
DaysInMonth(m, y) ==
    IF m \in {4, 6, 9, 11} THEN 30
    ELSE IF m = 2 THEN (IF (y % 4 = 0 /\ y % 100 # 0) \/ y % 400 = 0 THEN 29 ELSE 28)
    ELSE 31

\* datetime.strptime(date_str, fmt) for the formats %d<sep>%m<sep>%Y (yearFirst
\* FALSE) and %Y<sep>%m<sep>%d (TRUE): the year read, or 0 for a ValueError.
\* %d is 3[0-1]|[1-2]\d|0[1-9]|[1-9], %m is 1[0-2]|0[1-9]|[1-9], %Y is \d\d\d\d.
Strptime(date_str, sep, yearFirst) ==
    LET parts == SplitOn(date_str, sep)
        digits(p) == Len(p) >= 1 /\ \A i \in 1..Len(p) : p[i] \in Digit
        d == IF yearFirst THEN parts[3] ELSE parts[1]
        m == parts[2]
        y == IF yearFirst THEN parts[1] ELSE parts[3]
    IN  IF /\ Len(parts) = 3
           /\ \A i \in 1..3 : digits(parts[i])
           /\ Len(d) <= 2 /\ Len(m) <= 2 /\ Len(y) = 4
           /\ ToInt(m) \in 1..12
           /\ ToInt(y) >= 1
           /\ ToInt(d) \in 1..DaysInMonth(ToInt(m), ToInt(y))
        THEN ToInt(y) ELSE 0

\* "2000 <= year <= current_year + 1" for a year that parsed
YearInRange(year) == year # 0 /\ 2000 <= year /\ year <= CurrentYear + 1

\* AIService._validate_date: some format parses and gives a year in
\* [2000, current year + 1]
_validate_date(date_str) ==
    \E fmt \in {<<47, FALSE>>, <<45, FALSE>>, <<45, TRUE>>} :
        YearInRange(Strptime(date_str, fmt[1], fmt[2]))

\* AIService._normalize_date: "-" becomes "/", a four-character first part is a year
_normalize_date(date_str) ==
    LET slashed == [i \in 1..Len(date_str) |-> IF date_str[i] = 45 THEN 47 ELSE date_str[i]]
        parts == SplitOn(slashed, 47)
    IN  IF Len(parts) = 3
        THEN IF Len(parts[1]) = 4
             THEN zfill2(parts[3]) \o <<47>> \o zfill2(parts[2]) \o <<47>> \o parts[1]
             ELSE zfill2(parts[1]) \o <<47>> \o zfill2(parts[2]) \o <<47>> \o parts[3]
        ELSE slashed

\* months_pt of _format_date_extenso
MonthsPt == <<<<106, 97, 110, 101, 105, 114, 111>>, <<102, 101, 118, 101, 114, 101, 105, 114, 111>>, <<109, 97, 114, 231, 111>>, <<97, 98, 114, 105, 108>>, <<109, 97, 105, 111>>, <<106, 117, 110, 104, 111>>,
              <<106, 117, 108, 104, 111>>, <<97, 103, 111, 115, 116, 111>>, <<115, 101, 116, 101, 109, 98, 114, 111>>, <<111, 117, 116, 117, 98, 114, 111>>, <<110, 111, 118, 101, 109, 98, 114, 111>>, <<100, 101, 122, 101, 109, 98, 114, 111>>>>

\* AIService._format_date_extenso: DD/MM/YYYY, or None for an unknown month name
_format_date_extenso(day, month, year) ==
    IF \E k \in 1..12 : MonthsPt[k] = lower(month)
    THEN LET k == CHOOSE k \in 1..12 : MonthsPt[k] = lower(month)
         IN  zfill2(day) \o <<47>> \o zfill2(ToStr(k)) \o <<47>> \o year
    ELSE None

\* (?:data\s+de\s+emiss[aã]o|emitid[oa]\s+em|emiss[aã]o) under re.IGNORECASE
EmissionAnchor ==
    Alt(<<Cat(<<LitI(<<100, 97, 116, 97>>), Plus(Cls(WS)), LitI(<<100, 101>>), Plus(Cls(WS)), LitI(<<101, 109, 105, 115, 115>>),
                Cls(IC({97, 227})), LitI(<<111>>)>>),
          Cat(<<LitI(<<101, 109, 105, 116, 105, 100>>), Cls(IC({111, 97})), Plus(Cls(WS)), LitI(<<101, 109>>)>>),
          Cat(<<LitI(<<101, 109, 105, 115, 115>>), Cls(IC({97, 227})), LitI(<<111>>)>>)>>)

\* \d{2}[/-]\d{2}[/-]\d{4}
NumericDate == Cat(<<Rep(Cls(Digit), 2, 2), Cls({47, 45}), Rep(Cls(Digit), 2, 2), Cls({47, 45}),
                     Rep(Cls(Digit), 4, 4)>>)

\* <anchor>[:\s]*(\d{2}[/-]\d{2}[/-]\d{4})
AnchoredNumericDate == Cat(<<EmissionAnchor, Star(Cls(ColonSpace)), Grp(1, NumericDate)>>)

\* <anchor>[:\s]*(\d{1,2})\s+de\s+(\w+)\s+de\s+(\d{4})
AnchoredWrittenDate ==
    Cat(<<EmissionAnchor, Star(Cls(ColonSpace)), Grp(1, Rep(Cls(Digit), 1, 2)), Plus(Cls(WS)),
          LitI(<<100, 101>>), Plus(Cls(WS)), Grp(2, Plus(Cls(WordCh))), Plus(Cls(WS)), LitI(<<100, 101>>),
          Plus(Cls(WS)), Grp(3, Rep(Cls(Digit), 4, 4))>>)

\* \b(\d{2}[/-]\d{2}[/-]\d{4})\b
GenericDate == Cat(<<WordBoundary, Grp(1, NumericDate), WordBoundary>>)

\* emission_keywords of _extract_date_smart
EmissionKeywords == {<<101, 109, 105, 115, 115, 227, 111>>, <<101, 109, 105, 116, 105, 100, 111>>, <<100, 97, 116, 97>>, <<100, 105, 97>>}

\* the characters of context looked at on either side of a generic date
ContextRadius == 50

RECURSIVE FirstDateInContext(_, _)
\* the generic loop of _extract_date_smart: the first valid date with an emission
\* keyword within ContextRadius characters
FirstDateInContext(s, matches) ==
    IF matches = <<>> THEN None
    ELSE LET m == Head(matches)
             date_str == Group(s, m, 1)
             from == IF m.start - 1 - ContextRadius > 0 THEN m.start - ContextRadius ELSE 1
             to == IF m.end - 1 + ContextRadius < Len(s) THEN m.end - 1 + ContextRadius ELSE Len(s)
             context == lower(SubSeq(s, from, to))
         IN  IF _validate_date(date_str) /\ \E kw \in EmissionKeywords : Contains(context, kw)
             THEN _normalize_date(date_str)
             ELSE FirstDateInContext(s, Tail(matches))

\* the date of an anchored numeric match m: normalized when it validates
NumericDateOf(text, m) ==
    IF m.ok /\ _validate_date(Group(text, m, 1)) THEN _normalize_date(Group(text, m, 1))
    ELSE None

\* the date of an anchored written match m
WrittenDateOf(text, m) ==
    IF m.ok THEN _format_date_extenso(Group(text, m, 1), Group(text, m, 2), Group(text, m, 3))
    ELSE None

\* AIService._extract_date_smart
_extract_date_smart(text) ==
    OrElse(NumericDateOf(text, Search(AnchoredNumericDate, text)),
           OrElse(WrittenDateOf(text, Search(AnchoredWrittenDate, text)),
                  FirstDateInContext(text, FindIter(GenericDate, text))))

\* no day count (None)
NoDays == 0

\* (?:dia|dias) under re.IGNORECASE
DayUnit == Alt(<<LitI(<<100, 105, 97>>), LitI(<<100, 105, 97, 115>>)>>)

\* the three patterns of _extract_days_smart, in cascade order
DaysPatterns == <<
    \* (\d{1,2})\s*(?:\([^)]+\)\s*)?(?:dia|dias)\s*(?:de\s+)?(?:repouso|afastamento|afastado)
    Cat(<<Grp(1, Rep(Cls(Digit), 1, 2)), Star(Cls(WS)),
          Opt(Cat(<<Cls({40}), Plus(Cls((0..255) \ {41})), Cls({41}), Star(Cls(WS))>>)),
          DayUnit, Star(Cls(WS)), Opt(Cat(<<LitI(<<100, 101>>), Plus(Cls(WS))>>)),
          Alt(<<LitI(<<114, 101, 112, 111, 117, 115, 111>>), LitI(<<97, 102, 97, 115, 116, 97, 109, 101, 110, 116, 111>>), LitI(<<97, 102, 97, 115, 116, 97, 100, 111>>)>>)>>),
    \* (?:repouso|afastamento)[:\s]*(\d{1,2})\s*(?:dia|dias)
    Cat(<<Alt(<<LitI(<<114, 101, 112, 111, 117, 115, 111>>), LitI(<<97, 102, 97, 115, 116, 97, 109, 101, 110, 116, 111>>)>>), Star(Cls(ColonSpace)),
          Grp(1, Rep(Cls(Digit), 1, 2)), Star(Cls(WS)), DayUnit>>),
    \* (\d{1,2})\s*(?:dia|dias)\s*(?:de\s+)?(?:repouso|afastamento)
    Cat(<<Grp(1, Rep(Cls(Digit), 1, 2)), Star(Cls(WS)), DayUnit, Star(Cls(WS)),
          Opt(Cat(<<LitI(<<100, 101>>), Plus(Cls(WS))>>)),
          Alt(<<LitI(<<114, 101, 112, 111, 117, 115, 111>>), LitI(<<97, 102, 97, 115, 116, 97, 109, 101, 110, 116, 111>>)>>)>>) >>

\* the bounds of a plausible day count
MinDays == 1
MaxDays == 365

\* int(match.group(1)) of a match m, kept when it lies in [1, 365]
PlausibleDays(s, m) ==
    IF m.ok /\ MinDays <= ToInt(Group(s, m, 1)) /\ ToInt(Group(s, m, 1)) <= MaxDays
    THEN ToInt(Group(s, m, 1))
    ELSE NoDays

\* the first count, or the second when the first is None
OrElseDays(first, second) == IF first # NoDays THEN first ELSE second

RECURSIVE DaysCascade(_, _)
\* for pattern in patterns: the first re.search whose number lies in [1, 365]
DaysCascade(s, patterns) ==
    IF patterns = <<>> THEN NoDays
    ELSE OrElseDays(PlausibleDays(s, Search(Head(patterns), s)), DaysCascade(s, Tail(patterns)))

\* AIService._extract_days_smart
_extract_days_smart(text) == DaysCascade(text, DaysPatterns)

\* AIService._extract_with_smart_patterns
_extract_with_smart_patterns(text) ==
    [cid |-> _extract_cid_smart(text),
     doctor |-> _extract_doctor_smart(text),
     date |-> _extract_date_smart(text),
     days |-> _extract_days_smart(text)]

(***************************************************************************)
(* The documents explored, and the extraction of each.  The extractors are *)
(* pure, so their value on a document is computed once and looked up.      *)
(***************************************************************************)

\* "CID: J00\nDr. João Silva\nEmitido em 15/01/2025\n5 dias de repouso"
TextCertificate == <<67, 73, 68, 58, 32, 74, 48, 48, 10, 68, 114, 46, 32, 74, 111, 227, 111, 32, 83, 105, 108, 118, 97, 10, 69, 109, 105, 116, 105, 100, 111, 32, 101, 109, 32, 49, 53, 47, 48, 49, 47, 50, 48, 50, 53, 10, 53, 32, 100, 105, 97, 115, 32, 100, 101, 32, 114, 101, 112, 111, 117, 115, 111>>
\* the same words in lower case and on one line, with a trailing line break
TextLowered == <<99, 105, 100, 58, 32, 106, 48, 48, 32, 32, 100, 114, 46, 32, 106, 111, 227, 111, 32, 115, 105, 108, 118, 97, 32, 101, 109, 105, 116, 105, 100, 111, 32, 101, 109, 32, 49, 53, 47, 48, 49, 47, 50, 48, 50, 53, 32, 53, 32, 100, 105, 97, 115, 32, 100, 101, 32, 114, 101, 112, 111, 117, 115, 111, 10>>
\* the same document with the code token garbled by the OCR ("JOO")
TextGarbled == <<67, 73, 68, 58, 32, 74, 79, 79, 10, 68, 114, 46, 32, 74, 111, 227, 111, 32, 83, 105, 108, 118, 97, 10, 69, 109, 105, 116, 105, 100, 111, 32, 101, 109, 32, 49, 53, 47, 48, 49, 47, 50, 48, 50, 53, 10, 53, 32, 100, 105, 97, 115, 32, 100, 101, 32, 114, 101, 112, 111, 117, 115, 111>>
\* "Atestado médico\nDr. João Silva\nPaciente deve ficar 3 dias de repouso\nCID ilegível"
TextOther == <<65, 116, 101, 115, 116, 97, 100, 111, 32, 109, 233, 100, 105, 99, 111, 10, 68, 114, 46, 32, 74, 111, 227, 111, 32, 83, 105, 108, 118, 97, 10, 80, 97, 99, 105, 101, 110, 116, 101, 32, 100, 101, 118, 101, 32, 102, 105, 99, 97, 114, 32, 51, 32, 100, 105, 97, 115, 32, 100, 101, 32, 114, 101, 112, 111, 117, 115, 111, 10, 67, 73, 68, 32, 105, 108, 101, 103, 237, 118, 101, 108>>
\* ""
TextEmpty == <<>>

\* the texts handed to extraction
Texts == {TextCertificate, TextLowered, TextGarbled, TextOther, TextEmpty}

\* _normalize_text on the documents
NormalizedText == [text \in Texts |-> _normalize_text(text)]
Normalize(text) == IF text \in Texts THEN NormalizedText[text] ELSE _normalize_text(text)

\* _extract_with_smart_patterns on the normalized documents
NormalizedTexts == {NormalizedText[t] : t \in Texts}
SmartPatterns == [text \in NormalizedTexts |-> _extract_with_smart_patterns(text)]
ExtractSmart(text) ==
    IF text \in NormalizedTexts THEN SmartPatterns[text] ELSE _extract_with_smart_patterns(text)

\* _normalize_for_comparison on the documents, raw and normalized
ComparisonText == [text \in Texts \cup NormalizedTexts |-> _normalize_for_comparison(text)]
NormalizeForComparison(text) ==
    IF text \in Texts \cup NormalizedTexts THEN ComparisonText[text]
    ELSE _normalize_for_comparison(text)

\* AIService._merge_extractions: the pattern results, with the doctor taken from
\* the first PER entity of the tagger that looks like a name when the patterns
\* found none.  entities is the tagger's output, a sequence of
\* [word, entity_group] records.
RECURSIVE MergeDoctor(_, _)
MergeDoctor(doctor, entities) ==
    IF entities = <<>> THEN doctor
    ELSE LET e == Head(entities)
             entity_text == strip(e.word)
         IN  IF Contains(e.entity_group, <<80, 69, 82>>) /\ doctor = None /\ _looks_like_name(entity_text)
             THEN MergeDoctor(entity_text, Tail(entities))
             ELSE MergeDoctor(doctor, Tail(entities))

\* the loop of _merge_extractions over the entities, on the pattern results
WithEntities(results, entities) ==
    [results EXCEPT !.doctor = MergeDoctor(results.doctor, entities)]

_merge_extractions(text, entities) == WithEntities(ExtractSmart(text), entities)

(***************************************************************************)
(* Validator / formatter                                                   *)
(***************************************************************************)

\* the four field keys, in the order the code iterates them
KeyCID == <<67, 73, 68>>
KeyMedico == <<77, 233, 100, 105, 99, 111>>
KeyData == <<68, 97, 116, 97, 32, 100, 101, 32, 69, 109, 105, 115, 115, 227, 111>>
KeyDias == <<68, 105, 97, 115, 32, 100, 101, 32, 82, 101, 112, 111, 117, 115, 111>>
FieldKeys == <<KeyCID, KeyMedico, KeyData, KeyDias>>
FieldKeySet == {KeyCID, KeyMedico, KeyData, KeyDias}

\* the "not found" messages written by _validate_and_correct
NotFoundCID == <<67, 73, 68, 32, 110, 227, 111, 32, 102, 111, 105, 32, 101, 110, 99, 111, 110, 116, 114, 97, 100, 111, 46, 32, 86, 101, 114, 105, 102, 105, 113, 117, 101, 32, 115, 101, 32, 111, 32, 116, 101, 120, 116, 111, 32, 101, 115, 116, 225, 32, 108, 101, 103, 237, 118, 101, 108, 32, 111, 117, 32, 115, 101, 32, 115, 101, 103, 117, 101, 32, 111, 32, 112, 97, 100, 114, 227, 111, 32, 67, 73, 68, 45, 49, 48, 32, 40, 101, 120, 46, 58, 32, 74, 48, 48, 44, 32, 77, 53, 52, 46, 53, 41, 46>>
NotFoundMedico == <<78, 111, 109, 101, 32, 100, 111, 32, 109, 233, 100, 105, 99, 111, 32, 110, 227, 111, 32, 102, 111, 105, 32, 101, 110, 99, 111, 110, 116, 114, 97, 100, 111, 46, 32, 67, 101, 114, 116, 105, 102, 105, 113, 117, 101, 45, 115, 101, 32, 100, 101, 32, 113, 117, 101, 32, 111, 32, 112, 114, 101, 102, 105, 120, 111, 32, 39, 68, 114, 46, 39, 32, 111, 117, 32, 39, 68, 114, 97, 46, 39, 32, 101, 115, 116, 101, 106, 97, 32, 112, 114, 101, 115, 101, 110, 116, 101, 32, 101, 32, 108, 101, 103, 237, 118, 101, 108, 46>>
NotFoundData == <<68, 97, 116, 97, 32, 100, 101, 32, 101, 109, 105, 115, 115, 227, 111, 32, 110, 227, 111, 32, 102, 111, 105, 32, 101, 110, 99, 111, 110, 116, 114, 97, 100, 97, 46, 32, 65, 32, 105, 109, 97, 103, 101, 109, 32, 112, 111, 100, 101, 32, 101, 115, 116, 97, 114, 32, 105, 108, 101, 103, 237, 118, 101, 108, 32, 111, 117, 32, 115, 101, 109, 32, 97, 32, 101, 120, 112, 114, 101, 115, 115, 227, 111, 32, 39, 101, 109, 105, 116, 105, 100, 111, 32, 101, 109, 39, 46>>
NotFoundDias == <<68, 105, 97, 115, 32, 100, 101, 32, 114, 101, 112, 111, 117, 115, 111, 32, 110, 227, 111, 32, 102, 111, 114, 97, 109, 32, 101, 110, 99, 111, 110, 116, 114, 97, 100, 111, 115, 46, 32, 86, 101, 114, 105, 102, 105, 113, 117, 101, 32, 115, 101, 32, 97, 32, 113, 117, 97, 110, 116, 105, 100, 97, 100, 101, 32, 101, 115, 116, 225, 32, 105, 110, 100, 105, 99, 97, 100, 97, 32, 100, 101, 32, 102, 111, 114, 109, 97, 32, 110, 117, 109, 233, 114, 105, 99, 97, 32, 110, 111, 32, 97, 116, 101, 115, 116, 97, 100, 111, 46>>

\* AIService._validate_and_correct
_validate_and_correct(results) ==
    (KeyCID :> (IF results.cid # None /\ _validate_cid(results.cid)
                THEN results.cid ELSE NotFoundCID))
    @@ (KeyMedico :> (IF results.doctor # None /\ Len(results.doctor) > 3
                      THEN results.doctor ELSE NotFoundMedico))
    @@ (KeyData :> (IF results.date # None /\ _validate_date(results.date)
                    THEN results.date ELSE NotFoundData))
    @@ (KeyDias :> (IF results.days # NoDays /\ MinDays <= results.days /\ results.days <= MaxDays
                    THEN ToStr(results.days)
                         \o (IF results.days = 1 THEN <<32, 100, 105, 97>> ELSE <<32, 100, 105, 97, 115>>)
                         \o <<32, 100, 101, 32, 114, 101, 112, 111, 117, 115, 111>>
                    ELSE NotFoundDias))

(***************************************************************************)
(* Similarity matcher                                                      *)
(***************************************************************************)

\* Scores are fractions <<numerator, denominator>>.  The source computes them
\* in floating point; every comparison it makes (with 0.70, and between two
\* scores of at least 0.70) has the same outcome on the exact fractions.
Zero == <<0, 1>>
Greater(a, b) == a[1] * b[2] > b[1] * a[2]
AtLeast(a, b) == a[1] * b[2] >= b[1] * a[2]

\* similarity_threshold of _find_similar_correction, 0.70
SimilarityThreshold == <<70, 100>>

\* _calculate_similarity without the size penalty: the Jaccard ratio alone
SimilarityUnpenalized(text1, text2) ==
    IF text1 = <<>> \/ text2 = <<>> THEN Zero
    ELSE IF SplitSet(text1) = {} \/ SplitSet(text2) = {} THEN Zero
    ELSE <<Cardinality(SplitSet(text1) \cap SplitSet(text2)),
           Cardinality(SplitSet(text1) \cup SplitSet(text2))>>

\* _calculate_similarity with the penalty only when the first text is the
\* shorter one
SimilarityFromFirst(text1, text2) ==
    IF text1 = <<>> \/ text2 = <<>> THEN Zero
    ELSE LET words1 == SplitSet(text1)
             words2 == SplitSet(text2)
             intersection == words1 \cap words2
             union == words1 \cup words2
         IN  IF words1 = {} \/ words2 = {} THEN Zero
             ELSE IF 2 * Len(text1) < Len(text2)
             THEN <<7 * Cardinality(intersection), 10 * Cardinality(union)>>
             ELSE <<Cardinality(intersection), Cardinality(union)>>

\* AIService._calculate_similarity: Jaccard similarity of the word sets, times
\* 0.7 when the shorter text is less than half as long as the longer
_calculate_similarity(text1, text2) ==
    IF text1 = <<>> \/ text2 = <<>> THEN Zero
    ELSE LET words1 == SplitSet(text1)
             words2 == SplitSet(text2)
             intersection == words1 \cap words2
             union == words1 \cup words2
             min_len == IF Len(text1) < Len(text2) THEN Len(text1) ELSE Len(text2)
             max_len == IF Len(text1) < Len(text2) THEN Len(text2) ELSE Len(text1)
         IN  IF words1 = {} \/ words2 = {} THEN Zero
             ELSE IF 2 * min_len < max_len
             THEN <<7 * Cardinality(intersection), 10 * Cardinality(union)>>
             ELSE <<Cardinality(intersection), Cardinality(union)>>

\* the text a record is matched by: text_full, or the snippet when that is empty
HistoryText(correction) ==
    IF correction.text_full # <<>> THEN correction.text_full ELSE correction.text_snippet

NoCorrection == [found |-> FALSE, corrected |-> <<>>]

RECURSIVE BestMatch(_, _, _, _)
\* Compare with ">=" for ">" between scores: among equally similar records the
\* latest becomes best_match
CompareLatest(history, text_normalized, best_similarity, best_match, similarity) ==
    IF /\ HistoryText(Head(history)) # <<>>
       /\ AtLeast(similarity, best_similarity)
       /\ AtLeast(similarity, SimilarityThreshold)
    THEN BestMatch(Tail(history), text_normalized, similarity,
                   [found |-> TRUE, corrected |-> Head(history).corrected])
    ELSE BestMatch(Tail(history), text_normalized, best_similarity, best_match)

\* the body of the loop of _find_similar_correction for the first record of
\* history, whose score is similarity: the record becomes best_match when it
\* has a text and its score is above best_similarity and at least the threshold
Compare(history, text_normalized, best_similarity, best_match, similarity) ==
    IF /\ HistoryText(Head(history)) # <<>>
       /\ Greater(similarity, best_similarity)
       /\ AtLeast(similarity, SimilarityThreshold)
    THEN BestMatch(Tail(history), text_normalized, similarity,
                   [found |-> TRUE, corrected |-> Head(history).corrected])
    ELSE BestMatch(Tail(history), text_normalized, best_similarity, best_match)

\* the loop of _find_similar_correction
BestMatch(history, text_normalized, best_similarity, best_match) ==
    IF history = <<>> THEN best_match
    ELSE Compare(history, text_normalized, best_similarity, best_match,
                 _calculate_similarity(text_normalized,
                                       NormalizeForComparison(HistoryText(Head(history)))))

\* "if best_match:": an empty corrected mapping counts as no match
Truthy(best) == IF best.found /\ DOMAIN best.corrected # {} THEN best ELSE NoCorrection

\* AIService._find_similar_correction
_find_similar_correction(history, text) ==
    Truthy(BestMatch(history, NormalizeForComparison(text), Zero, NoCorrection))

(***************************************************************************)
(* Per-field replay                                                        *)
(***************************************************************************)

\* the substring markers that callers test for an unresolved field
MarkerSingular == <<110, 227, 111, 32, 102, 111, 105, 32, 101, 110, 99, 111, 110, 116, 114, 97, 100, 111>>
MarkerPlural == <<110, 227, 111, 32, 102, 111, 114, 97, 109, 32, 101, 110, 99, 111, 110, 116, 114, 97, 100, 111, 115>>
HasMarker(value) == Contains(value, MarkerSingular) \/ Contains(value, MarkerPlural)

\* the number of common words that makes two texts "similar context"
MinCommonWords == 5

\* corrected.get(key, '')
GetOrEmpty(mapping, key) == IF key \in DOMAIN mapping THEN mapping[key] ELSE <<>>

\* ApplyCorrection without the test that the field is unresolved
ApplyCorrectionAlways(text, results, correction) ==
    LET history_text == correction.text_snippet
        common_keywords == SplitSet(lower(history_text)) \cap SplitSet(lower(text))
    IN  IF history_text = <<>> THEN results
        ELSE [key \in DOMAIN results |->
                LET corrected_value == GetOrEmpty(correction.corrected, key)
                IN  IF /\ key \in FieldKeySet
                       /\ corrected_value # <<>>
                       /\ ~HasMarker(corrected_value)
                       /\ Cardinality(common_keywords) >= MinCommonWords
                    THEN corrected_value
                    ELSE results[key]]

\* ApplyCorrection without the test that the corrected value is resolved
ApplyCorrectionUnchecked(text, results, correction) ==
    LET history_text == correction.text_snippet
        common_keywords == SplitSet(lower(history_text)) \cap SplitSet(lower(text))
    IN  IF history_text = <<>> THEN results
        ELSE [key \in DOMAIN results |->
                LET corrected_value == GetOrEmpty(correction.corrected, key)
                IN  IF /\ key \in FieldKeySet
                       /\ HasMarker(results[key])
                       /\ corrected_value # <<>>
                       /\ Cardinality(common_keywords) >= MinCommonWords
                    THEN corrected_value
                    ELSE results[key]]

\* the body of the loop of _apply_learned_patterns for one record
ApplyCorrection(text, results, correction) ==
    LET history_text == correction.text_snippet
        common_keywords == SplitSet(lower(history_text)) \cap SplitSet(lower(text))
    IN  IF history_text = <<>> THEN results
        ELSE [key \in DOMAIN results |->
                LET corrected_value == GetOrEmpty(correction.corrected, key)
                IN  IF /\ key \in FieldKeySet
                       /\ HasMarker(results[key])
                       /\ corrected_value # <<>>
                       /\ ~HasMarker(corrected_value)
                       /\ Cardinality(common_keywords) >= MinCommonWords
                    THEN corrected_value
                    ELSE results[key]]

RECURSIVE _apply_learned_patterns(_, _, _)
\* AIService._apply_learned_patterns: the records in log order, each applied to
\* the results the earlier ones left
_apply_learned_patterns(history, text, results) ==
    IF history = <<>> THEN results
    ELSE _apply_learned_patterns(Tail(history), text, ApplyCorrection(text, results, Head(history)))

(***************************************************************************)
(* Extraction                                                              *)
(***************************************************************************)

\* the draft of extract_with_ai: extraction and validation, before the overlay.
\* nlp is "use_advanced_nlp and nlp_model"; entities is what the tagger returns.
Draft(nlp, entities, normalized_text) ==
    _validate_and_correct(IF nlp THEN _merge_extractions(normalized_text, entities)
                          ELSE ExtractSmart(normalized_text))

\* Overlay with "results.update(learned_correction)" for the return: the
\* learned mapping laid over what per-field replay gives
OverlayUpdating(learned_correction, otherwise) ==
    IF learned_correction.found THEN learned_correction.corrected @@ otherwise ELSE otherwise

\* "if learned_correction: return learned_correction":
\* the learned mapping when there is one, else what per-field replay gives
Overlay(learned_correction, otherwise) ==
    IF learned_correction.found THEN learned_correction.corrected ELSE otherwise

\* extract_with_ai after the normalization of the text
ExtractNormalized(history, nlp, entities, normalized_text) ==
    Overlay(_find_similar_correction(history, normalized_text),
            _apply_learned_patterns(history, normalized_text,
                                    Draft(nlp, entities, normalized_text)))

\* AIService.extract_with_ai on the log history
extract_with_ai(history, nlp, entities, text) ==
    ExtractNormalized(history, nlp, entities, Normalize(text))

(***************************************************************************)
(* The external representation: json.dump / json.load of the log           *)
(***************************************************************************)

\* the characters json.dump escapes with ensure_ascii=False
JsonEscaped == (0..31) \cup {34, 92}

\* one hexadecimal digit, lower case
Hex(n) == IF n < 10 THEN 48 + n ELSE 87 + n

\* the escape sequence of one character: \" \\ \n \r \t \b \f, else \u00XX
EscapeChar(c) ==
    CASE c = 34 -> <<92, 34>>
      [] c = 92 -> <<92, 92>>
      [] c = 10 -> <<92, 110>>
      [] c = 13 -> <<92, 114>>
      [] c = 9 -> <<92, 116>>
      [] c = 8 -> <<92, 98>>
      [] c = 12 -> <<92, 102>>
      [] OTHER -> <<92, 117, 48, 48, Hex(c \div 16), Hex(c % 16)>>

RECURSIVE Escape(_)
\* the body of the JSON string literal json.dump writes for s
Escape(s) ==
    IF \A i \in 1..Len(s) : s[i] \notin JsonEscaped THEN s
    ELSE LET k == CHOOSE i \in 1..Len(s) :
                     s[i] \in JsonEscaped /\ \A j \in 1..(i-1) : s[j] \notin JsonEscaped
         IN  SubSeq(s, 1, k - 1) \o EscapeChar(s[k]) \o Escape(SubSeq(s, k + 1, Len(s)))

\* the value of one hexadecimal digit
Unhex(c) == IF c \in 48..57 THEN c - 48 ELSE IF c \in 97..102 THEN c - 87 ELSE c - 55

RECURSIVE Unescape(_)
\* the string json.load reads from the body of a string literal
Unescape(e) ==
    IF \A i \in 1..Len(e) : e[i] # 92 THEN e
    ELSE LET k == CHOOSE i \in 1..Len(e) : e[i] = 92 /\ \A j \in 1..(i-1) : e[j] # 92
             c == e[k + 1]
         IN  SubSeq(e, 1, k - 1)
             \o (IF c = 117
                 THEN <<4096 * Unhex(e[k+2]) + 256 * Unhex(e[k+3]) + 16 * Unhex(e[k+4]) + Unhex(e[k+5])>>
                      \o Unescape(SubSeq(e, k + 6, Len(e)))
                 ELSE <<CASE c = 110 -> 10 [] c = 114 -> 13 [] c = 116 -> 9
                          [] c = 98 -> 8 [] c = 102 -> 12 [] OTHER -> c>>
                      \o Unescape(SubSeq(e, k + 2, Len(e))))

\* a mapping as a JSON object: its members, key and value as string literals
EncodeMapping(m) == {<<Escape(k), Escape(m[k])>> : k \in DOMAIN m}

\* the dict json.load builds from a JSON object
DecodeMapping(obj) ==
    [k \in {Unescape(p[1]) : p \in obj} |->
        Unescape((CHOOSE p \in obj : Unescape(p[1]) = k)[2])]

\* one Correction Record as a JSON object
EncodeRecord(r) ==
    [original |-> EncodeMapping(r.original),
     corrected |-> EncodeMapping(r.corrected),
     text_snippet |-> Escape(r.text_snippet),
     text_full |-> Escape(r.text_full),
     timestamp |-> Escape(r.timestamp)]

DecodeRecord(j) ==
    [original |-> DecodeMapping(j.original),
     corrected |-> DecodeMapping(j.corrected),
     text_snippet |-> Unescape(j.text_snippet),
     text_full |-> Unescape(j.text_full),
     timestamp |-> Unescape(j.timestamp)]

\* a dump of the newest record alone
JsonDumpLast(history) ==
    IF history = <<>> THEN <<>> ELSE <<EncodeRecord(history[Len(history)])>>

\* json.dump(self.corrections_history, f, ensure_ascii=False, indent=2)
JsonDump(history) == [i \in 1..Len(history) |-> EncodeRecord(history[i])]

\* json.load(f)
JsonLoad(doc) == [i \in 1..Len(doc) |-> DecodeRecord(doc[i])]

(***************************************************************************)
(* NLPService (nlp_service.py): the rule-based extractor the upload        *)
(* handler calls                                                           *)
(***************************************************************************)

\* NLPService.extract_info: safe_text, runs of spaces and tabs collapsed and
\* then the control characters removed
safe_text(text) == RemoveAll(CollapseRuns(text, {32, 9}, 32), ControlChars)

\* (?P<cid>[A-Z]{1}\d{2,3}(?:\.[0-9A-Z]{1,2})?) under re.IGNORECASE, as group 1
NlpCidToken == Grp(1, Cat(<<Cls(IC(65..90)), Rep(Cls(Digit), 2, 3),
                            Opt(Cat(<<Cls({46}), Rep(Cls(IC(Digit \cup (65..90))), 1, 2)>>))>>))

\* C\.?\s*I\.?\s*D\.?\s*(?:-?\s*10\s*[-:]?\s*)?[:\-–]?\s*\(?\s*(<code>)\.?\s*\)?
cid_pattern ==
    Cat(<<LitI(<<67>>), Opt(Cls({46})), Star(Cls(WS)), LitI(<<73>>), Opt(Cls({46})), Star(Cls(WS)),
          LitI(<<68>>), Opt(Cls({46})), Star(Cls(WS)),
          Opt(Cat(<<Opt(Cls({45})), Star(Cls(WS)), Lit(<<49, 48>>), Star(Cls(WS)), Opt(Cls({45, 58})),
                    Star(Cls(WS))>>)),
          Opt(Cls({58, 45, 8211})), Star(Cls(WS)), Opt(Cls({40})), Star(Cls(WS)),
          NlpCidToken, Opt(Cls({46})), Star(Cls(WS)), Opt(Cls({41}))>>)

\* standalone_cid_pattern: \b(<code>)\b under re.IGNORECASE
standalone_cid_pattern == Cat(<<WordBoundary, NlpCidToken, WordBoundary>>)

\* medical_context: (?:doen[çc]a|diagn[oó]stico|cid|patologia|infec[çc][aã]o|sintoma)
medical_context ==
    Alt(<<Cat(<<LitI(<<100, 111, 101, 110>>), Cls(IC({231, 99})), LitI(<<97>>)>>),
          Cat(<<LitI(<<100, 105, 97, 103, 110>>), Cls(IC({111, 243})), LitI(<<115, 116, 105, 99, 111>>)>>),
          LitI(<<99, 105, 100>>),
          LitI(<<112, 97, 116, 111, 108, 111, 103, 105, 97>>),
          Cat(<<LitI(<<105, 110, 102, 101, 99>>), Cls(IC({231, 99})), Cls(IC({97, 227})), LitI(<<111>>)>>),
          LitI(<<115, 105, 110, 116, 111, 109, 97>>)>>)

\* match.group("cid").upper() of a search m, or None when nothing matched
\* (findall(...)[0] is the group of the first match)
FirstCode(s, m) == IF m.ok THEN upper(Group(s, m, 1)) ELSE None

\* line i holds "CID", or the line before or after it does
NearCidLine(lines, i) ==
    \/ Contains(upper(lines[i]), <<67, 73, 68>>)
    \/ (i > 1 /\ Contains(upper(lines[i-1]), <<67, 73, 68>>))
    \/ (i < Len(lines) /\ Contains(upper(lines[i+1]), <<67, 73, 68>>))

RECURSIVE CidByLine(_, _)
\* the line loop of extract_cid: the first code on a line near "CID"
CidByLine(lines, i) ==
    IF i > Len(lines) THEN None
    ELSE OrElse(IF NearCidLine(lines, i)
                THEN FirstCode(lines[i], Search(standalone_cid_pattern, lines[i]))
                ELSE None,
                CidByLine(lines, i + 1))

\* the last resort of extract_cid: the first code of a text with a medical word
CidInMedicalText(text) ==
    IF Search(medical_context, text).ok
    THEN FirstCode(text, Search(standalone_cid_pattern, text))
    ELSE None

\* NLPService.extract_cid
extract_cid(text) ==
    OrElse(FirstCode(text, Search(cid_pattern, text)),
           OrElse(CidByLine(SplitOn(text, 10), 1), CidInMedicalText(text)))

\* \b(?:Dr|Dra|DR|DRA)\.?\s+(?P<doctor><word>(?:\s+<word>){0,4})(?:\s|CRM|$)
doctor_pattern ==
    Cat(<<WordBoundary,
          Alt(<<LitI(<<68, 114>>), LitI(<<68, 114, 97>>), LitI(<<68, 82>>), LitI(<<68, 82, 65>>)>>),
          Opt(Cls({46})), Plus(Cls(WS)),
          Grp(1, Cat(<<NameWord, Rep(Cat(<<Plus(Cls(WS)), NameWord>>), 0, 4)>>)),
          Alt(<<Cls(WS), LitI(<<67, 82, 77>>), EndOfString>>)>>)

\* s.split(needle)[0]: s up to the first needle, all of s when it holds none
BeforeFirst(s, needle) ==
    IF ~Contains(s, needle) THEN s
    ELSE SubSeq(s, 1, (CHOOSE i \in 1..Len(s) :
                          /\ SubSeq(s, i, i + Len(needle) - 1) = needle
                          /\ \A j \in 1..(i-1) : SubSeq(s, j, j + Len(needle) - 1) # needle) - 1)

\* the whole match stripped, cut at "CRM" when its upper case holds "CRM"
CutAtCrm(full_match) ==
    IF Contains(upper(full_match), <<67, 82, 77>>)
    THEN strip(BeforeFirst(full_match, <<67, 82, 77>>))
    ELSE full_match

\* match.group(0) of a search m made into the doctor's name, or None
DoctorOf(text, m) ==
    IF m.ok THEN CutAtCrm(strip(SubSeq(text, m.start, m.end - 1))) ELSE None

\* NLPService.extract_doctor
extract_doctor(text) == DoctorOf(text, Search(doctor_pattern, text))

\* extract_days returns None
NoCount == -1

\* (?P<days>\d{1,2})\s*(?:\([^)]+\)\s*)?(?:dia(?:s)?|dias)\s*(?:afastado|de\s+(?:repouso|afastamento))?
days_pattern ==
    Cat(<<Grp(1, Rep(Cls(Digit), 1, 2)), Star(Cls(WS)),
          Opt(Cat(<<Cls({40}), Plus(Cls((0..255) \ {41})), Cls({41}), Star(Cls(WS))>>)),
          Alt(<<Cat(<<LitI(<<100, 105, 97>>), Opt(LitI(<<115>>))>>), LitI(<<100, 105, 97, 115>>)>>),
          Star(Cls(WS)),
          Opt(Alt(<<LitI(<<97, 102, 97, 115, 116, 97, 100, 111>>),
                    Cat(<<LitI(<<100, 101>>), Plus(Cls(WS)),
                          Alt(<<LitI(<<114, 101, 112, 111, 117, 115, 111>>), LitI(<<97, 102, 97, 115, 116, 97, 109, 101, 110, 116, 111>>)>>)>>)>>))>>)

\* int(match.group("days")) of a search m, or None
DaysOf(text, m) == IF m.ok THEN ToInt(Group(text, m, 1)) ELSE NoCount

\* NLPService.extract_days
extract_days(text) == DaysOf(text, Search(days_pattern, text))

\* NLPService._format_days
_format_days(days) ==
    IF days = NoCount \/ days <= 0 THEN NotFoundDias
    ELSE ToStr(days) \o <<32>> \o (IF days = 1 THEN <<100, 105, 97>> ELSE <<100, 105, 97, 115>>) \o <<32, 100, 101, 32, 114, 101, 112, 111, 117, 115, 111>>

\* months_pattern: the month names, one alternative each
months_pattern == Alt([k \in 1..12 |-> LitI(MonthsPt[k])])

\* (?:data\s*de\s*emiss[aã]o|emiss[aã]o|emitid[oa]\s+em|,)
NlpAnchor ==
    Alt(<<Cat(<<LitI(<<100, 97, 116, 97>>), Star(Cls(WS)), LitI(<<100, 101>>), Star(Cls(WS)), LitI(<<101, 109, 105, 115, 115>>),
                Cls(IC({97, 227})), LitI(<<111>>)>>),
          Cat(<<LitI(<<101, 109, 105, 115, 115>>), Cls(IC({97, 227})), LitI(<<111>>)>>),
          Cat(<<LitI(<<101, 109, 105, 116, 105, 100>>), Cls(IC({111, 97})), Plus(Cls(WS)), LitI(<<101, 109>>)>>),
          Lit(<<44>>)>>)

\* (?P<day>\d{1,2})\s+de\s+(?P<month><months>)\s+de\s+(?P<year>\d{4})
WrittenDate ==
    Cat(<<Grp(1, Rep(Cls(Digit), 1, 2)), Plus(Cls(WS)), LitI(<<100, 101>>), Plus(Cls(WS)),
          Grp(2, months_pattern), Plus(Cls(WS)), LitI(<<100, 101>>), Plus(Cls(WS)),
          Grp(3, Rep(Cls(Digit), 4, 4))>>)

\* \d{4}-\d{2}-\d{2}
IsoDate == Cat(<<Rep(Cls(Digit), 4, 4), Cls({45}), Rep(Cls(Digit), 2, 2), Cls({45}),
                 Rep(Cls(Digit), 2, 2)>>)

\* \d{2}<sep>\d{2}<sep>\d{4} with one separator
DateWith(sep) == Cat(<<Rep(Cls(Digit), 2, 2), Cls({sep}), Rep(Cls(Digit), 2, 2), Cls({sep}),
                       Rep(Cls(Digit), 4, 4)>>)

\* emission_patterns, in order; written says that the pattern has the groups
\* day, month and year
emission_patterns == <<
    [written |-> TRUE, re |-> Cat(<<Opt(Cat(<<NlpAnchor, Star(Cls(WS))>>)), WrittenDate>>)],
    [written |-> FALSE, re |-> Cat(<<NlpAnchor, Star(Cls(WS)), Grp(1, NumericDate)>>)],
    [written |-> FALSE, re |-> Cat(<<NlpAnchor, Star(Cls(WS)), Grp(1, IsoDate)>>)] >>

\* generic_date_patterns, in order
generic_date_patterns == <<
    [written |-> TRUE, re |-> WrittenDate],
    [written |-> FALSE, re |-> Grp(1, DateWith(47))],
    [written |-> FALSE, re |-> Grp(1, DateWith(45))],
    [written |-> FALSE, re |-> Grp(1, IsoDate)] >>

\* the ValueError of "day, month, year = parts" when parts are not three
ValueError == <<-1>>

\* the date of its parts
DayMonthYear(day, month, year) == zfill2(day) \o <<47>> \o zfill2(month) \o <<47>> \o year

\* the three parts of a date split at one separator, in the order of the
\* unpacking: ValueError when there are not three
Unpack(parts, yearFirst) ==
    IF Len(parts) # 3 THEN ValueError
    ELSE IF yearFirst /\ Len(parts[1]) = 4 THEN DayMonthYear(parts[3], parts[2], parts[1])
    ELSE DayMonthYear(parts[1], parts[2], parts[3])

\* NLPService._normalize_date
nlp_normalize_date(date_str) ==
    IF Contains(date_str, <<45>>) THEN Unpack(SplitOn(date_str, 45), TRUE)
    ELSE Unpack(SplitOn(date_str, 47), FALSE)

\* self.months_pt.get(month.lower(), "01")
MonthNumber(month) ==
    IF \E k \in 1..12 : MonthsPt[k] = lower(month)
    THEN zfill2(ToStr(CHOOSE k \in 1..12 : MonthsPt[k] = lower(month)))
    ELSE <<48, 49>>

\* the date of a match m of pattern p
DateOf(text, p, m) ==
    IF p.written
    THEN zfill2(Group(text, m, 1)) \o <<47>> \o MonthNumber(Group(text, m, 2)) \o <<47>> \o Group(text, m, 3)
    ELSE nlp_normalize_date(Group(text, m, 1))

RECURSIVE DateCascade(_, _)
\* the date of the search m of pattern p, or that of the patterns after it
DateOrNext(text, p, m, rest) == IF m.ok THEN DateOf(text, p, m) ELSE DateCascade(text, rest)

\* for pattern in patterns: the date of the first pattern that matches
DateCascade(text, patterns) ==
    IF patterns = <<>> THEN None
    ELSE DateOrNext(text, Head(patterns), Search(Head(patterns).re, text), Tail(patterns))

\* NLPService.extract_emission_date: the emission patterns, then the generic ones
extract_emission_date(text) == DateCascade(text, emission_patterns \o generic_date_patterns)

\* "value" for "value if value else message"
FoundOrNone(value, message) == value

\* "value if value else message"
Found(value, message) == IF value # None THEN value ELSE message

\* the mapping extract_info returns for safe_text
InfoOf(safe) ==
    (KeyCID :> Found(extract_cid(safe), NotFoundCID))
    @@ (KeyMedico :> Found(extract_doctor(safe), NotFoundMedico))
    @@ (KeyData :> Found(extract_emission_date(safe), NotFoundData))
    @@ (KeyDias :> _format_days(extract_days(safe)))

\* NLPService.extract_info when nothing raises
extract_info(text) == InfoOf(safe_text(text))

\* NLPService.extract_info raises: the only raise is that of _normalize_date
extract_info_raises(text) == extract_emission_date(safe_text(text)) = ValueError

(***************************************************************************)
(* Inputs of the calls explored                                            *)
(***************************************************************************)

\* corrected mappings a caller submits
CorrectedFull ==
    (KeyCID :> <<74, 48, 48>>) @@ (KeyMedico :> <<68, 114, 46, 32, 74, 111, 227, 111, 32, 83, 105, 108, 118, 97>>)
    @@ (KeyData :> <<49, 53, 47, 48, 49, 47, 50, 48, 50, 53>>) @@ (KeyDias :> <<53, 32, 100, 105, 97, 115, 32, 100, 101, 32, 114, 101, 112, 111, 117, 115, 111>>)
CorrectedAlt ==
    (KeyCID :> <<77, 53, 52, 46, 53>>) @@ (KeyMedico :> <<68, 114, 97, 46, 32, 77, 97, 114, 105, 97, 32, 83, 97, 110, 116, 111, 115>>)
    @@ (KeyData :> <<50, 48, 47, 48, 49, 47, 50, 48, 50, 53>>) @@ (KeyDias :> NotFoundDias)
CorrectedPartial == (KeyCID :> <<77, 53, 52, 46, 53>>)
CorrectedEmpty == <<>>

\* the (text, corrected) pairs submitted as corrections
Submissions == {
    <<TextCertificate, CorrectedFull>>,
    <<TextLowered, CorrectedAlt>>,
    <<TextOther, CorrectedPartial>>,
    <<TextGarbled, CorrectedEmpty>>,
    <<TextEmpty, CorrectedFull>> }

\* what the external tagger may return
EntityChoices == {
    <<>>,
    <<[word |-> <<32, 77, 97, 114, 105, 97, 32, 83, 111, 117, 122, 97, 32>>, entity_group |-> <<80, 69, 82>>]>> }

(***************************************************************************)
(* The correction store and the processes that use it                      *)
(***************************************************************************)

\* the AIService instances alive at the same time (processes sharing the file)
Instances == {1, 2}

\* the number of correction submissions explored
MaxSaves == 2

\* the number of storage failures (a load or a write that raises) explored
MaxFaults == 1

\* text[:500], the snippet kept beside the full text
SnippetLength == 500

VARIABLES
    disk,     \* ai_corrections_history.json: [kind, doc]; kind is "missing", "json"
              \* (doc is the JSON array written) or "torn" (truncated, unparseable)
    up,       \* up[i]: instance i is constructed
    nlp,      \* nlp[i]: instance i loaded the tagger (use_advanced_nlp and nlp_model)
    mem,      \* mem[i]: corrections_history of instance i
    writing,  \* writing[i]: instance i has opened the file for writing and not closed it
    now,      \* the clock datetime.now() reads, advanced by every submission
    faults,   \* the storage failures so far
    ret,      \* the last call: [op, inst, text, entities, result, note]
    acked     \* the <<position, record>> pairs some write put into the file completely

vars == <<disk, up, nlp, mem, writing, now, faults, ret, acked>>

\* datetime.now().isoformat(), as the digits of the clock
IsoFormat(t) == ToStr(t)

\* the record save_correction builds
NewCorrection(original, corrected, text, t) ==
    [original |-> original,
     corrected |-> corrected,
     text_snippet |-> SubSeq(text, 1, IF Len(text) < SnippetLength THEN Len(text) ELSE SnippetLength),
     text_full |-> text,
     timestamp |-> IsoFormat(t)]

Missing == [kind |-> "missing", doc |-> <<>>]
Torn == [kind |-> "torn", doc |-> <<>>]

\* a load that does not notice that reading failed: what the file holds is
\* taken as read
LoadUnnoticed(file, readable) ==
    IF file.kind = "json" THEN JsonLoad(file.doc) ELSE <<>>

\* AIService.load_corrections_history: the log read, empty when the file is
\* missing, cannot be read (readable is FALSE: open or read raises) or parsed
load_corrections_history(file, readable) ==
    IF file.kind = "missing" THEN <<>>
    ELSE IF readable /\ file.kind = "json" THEN JsonLoad(file.doc)
    ELSE <<>>

\* what the load met
LoadNote(file, readable) ==
    IF file.kind = "missing" THEN "missing"
    ELSE IF readable /\ file.kind = "json" THEN "loaded"
    ELSE "unreadable"

\* how a write to the file may end: completely written; open() raises and the
\* file is untouched; the file is opened (truncated) and the dump raises
WriteOutcomes == {"ok", "open_failed", "write_failed"}

\* AIService.save_corrections_history: the file afterwards (errors are printed)
save_corrections_history(history, file, outcome) ==
    CASE outcome = "ok" -> [kind |-> "json", doc |-> JsonDump(history)]
      [] outcome = "open_failed" -> file
      [] outcome = "write_failed" -> Torn

\* the failures a call adds: an existing file that cannot be read, a write that raises
ReadFault(file, readable) == IF file.kind # "missing" /\ ~readable THEN 1 ELSE 0
WriteFault(outcome) == IF outcome = "ok" THEN 0 ELSE 1

\* the positions and records of a log
Entries(history) == {<<k, history[k]>> : k \in 1..Len(history)}

Call(op, i, text, entities, result, note) ==
    [op |-> op, inst |-> i, text |-> text, entities |-> entities, result |-> result, note |-> note]

Init ==
    /\ disk = Missing
    /\ up = [i \in Instances |-> FALSE]
    /\ nlp = [i \in Instances |-> FALSE]
    /\ mem = [i \in Instances |-> <<>>]
    /\ writing = [i \in Instances |-> FALSE]
    /\ now = 0
    /\ faults = 0
    /\ ret = Call("none", 0, <<>>, <<>>, <<>>, "")
    /\ acked = {}

\* AIService.__init__: the tagger loads or not, then the history is loaded
Start(i, model_loaded, readable) ==
    /\ ~up[i]
    /\ faults + ReadFault(disk, readable) <= MaxFaults
    /\ up' = [up EXCEPT ![i] = TRUE]
    /\ nlp' = [nlp EXCEPT ![i] = model_loaded]
    /\ mem' = [mem EXCEPT ![i] = load_corrections_history(disk, readable)]
    /\ faults' = faults + ReadFault(disk, readable)
    /\ ret' = Call("load", i, <<>>, <<>>, <<>>, LoadNote(disk, readable))
    /\ UNCHANGED <<disk, writing, now, acked>>

\* AIService.extract_with_ai(text) on instance i
Extract(i, text, entities) ==
    /\ up[i] /\ ~writing[i]
    /\ nlp[i] \/ entities = <<>>
    /\ ret' = Call("extract", i, text, entities,
                   extract_with_ai(mem[i], nlp[i], entities, text), "ok")
    /\ UNCHANGED <<disk, up, nlp, mem, writing, now, faults, acked>>

\* the original mapping a caller passes with a correction: what extraction
\* without history gives for the text
Original == [text \in Texts |-> extract_with_ai(<<>>, FALSE, <<>>, text)]
OriginalOf(text) == Original[text]

\* save_corrections_history(history) and what it leaves in the file
Write(history, outcome) ==
    /\ disk' = save_corrections_history(history, disk, outcome)
    /\ acked' = IF outcome = "ok" THEN acked \cup Entries(history) ELSE acked

\* save_correction with "self.corrections_history = [correction]" for the append
SaveCorrectionReplacing(i, original, text, corrected, outcome) ==
    /\ up[i] /\ ~writing[i]
    /\ now < MaxSaves
    /\ faults + WriteFault(outcome) <= MaxFaults
    /\ mem' = [mem EXCEPT ![i] = <<NewCorrection(original, corrected, text, now)>>]
    /\ Write(mem'[i], outcome)
    /\ ret' = Call("save", i, text, <<>>, corrected, outcome)
    /\ now' = now + 1
    /\ faults' = faults + WriteFault(outcome)
    /\ UNCHANGED <<up, nlp, writing>>

\* save_correction that appends only when the write succeeds
SaveCorrectionOnlyIfWritten(i, original, text, corrected, outcome) ==
    /\ up[i] /\ ~writing[i]
    /\ now < MaxSaves
    /\ faults + WriteFault(outcome) <= MaxFaults
    /\ mem' = [mem EXCEPT ![i] = IF outcome = "ok"
                                  THEN Append(mem[i], NewCorrection(original, corrected, text, now))
                                  ELSE mem[i]]
    /\ Write(Append(mem[i], NewCorrection(original, corrected, text, now)), outcome)
    /\ ret' = Call("save", i, text, <<>>, corrected, outcome)
    /\ now' = now + 1
    /\ faults' = faults + WriteFault(outcome)
    /\ UNCHANGED <<up, nlp, writing>>

\* what save_correction hands its caller when the write ends as outcome: the
\* exception of the write is caught and printed in save_corrections_history,
\* and save_correction has no return statement
save_correction_returns(outcome) == [raised |-> FALSE, value |-> None]

\* AIService.save_correction(original, corrected, text) on instance i
SaveCorrection(i, original, text, corrected, outcome) ==
    /\ up[i] /\ ~writing[i]
    /\ now < MaxSaves
    /\ faults + WriteFault(outcome) <= MaxFaults
    /\ mem' = [mem EXCEPT ![i] = Append(mem[i], NewCorrection(original, corrected, text, now))]
    /\ Write(mem'[i], outcome)
    /\ ret' = Call("save", i, text, <<>>, corrected, outcome)
    /\ now' = now + 1
    /\ faults' = faults + WriteFault(outcome)
    /\ UNCHANGED <<up, nlp, writing>>

\* the process that owns instance i ends
Stop(i) ==
    /\ up[i] /\ ~writing[i]
    /\ up' = [up EXCEPT ![i] = FALSE]
    /\ nlp' = [nlp EXCEPT ![i] = FALSE]
    /\ mem' = [mem EXCEPT ![i] = <<>>]
    /\ ret' = Call("stop", i, <<>>, <<>>, <<>>, "")
    /\ UNCHANGED <<disk, writing, now, faults, acked>>

(***************************************************************************)
(* train_ai.py: each command builds its own AIService, uses it and ends    *)
(***************************************************************************)

\* the tagger of a new instance: not loaded, or loaded and returning entities
TaggerChoices == {<<FALSE, <<>>>>} \cup {<<TRUE, e>> : e \in EntityChoices}

\* what the operator types for the four fields ("" keeps the current value)
KeepAll == [k \in FieldKeySet |-> <<>>]
ManualEdits == {KeepAll, [KeepAll EXCEPT ![KeyCID] = <<77, 53, 52, 46, 53>>]}

\* the texts the operator trains on by hand
ManualTexts == {TextOther}

\* the corrected mapping add_training_example builds: the typed value, or the
\* current value of the key ('' when the current results lack it)
ManualCorrected(current_results, edits) ==
    [key \in FieldKeySet |->
        IF edits[key] # <<>> THEN edits[key] ELSE GetOrEmpty(current_results, key)]

\* add_training_example from the current results on: the corrected mapping
\* is built and saved on the instance whose log is history
TrainOn(text, edits, tagger, outcome, history, current_results) ==
    /\ Write(Append(history, NewCorrection(current_results,
                                           ManualCorrected(current_results, edits), text, now)),
             outcome)
    /\ ret' = Call("add_training_example", 0, text, tagger[2], current_results, outcome)

\* train_ai.add_training_example
AddTrainingExample(text, edits, tagger, readable, outcome) ==
    /\ now < MaxSaves
    /\ faults + ReadFault(disk, readable) + WriteFault(outcome) <= MaxFaults
    /\ TrainOn(text, edits, tagger, outcome, load_corrections_history(disk, readable),
               extract_with_ai(load_corrections_history(disk, readable), tagger[1], tagger[2], text))
    /\ now' = now + 1
    /\ faults' = faults + ReadFault(disk, readable) + WriteFault(outcome)
    /\ UNCHANGED <<up, nlp, mem, writing>>

\* the example files of batch_train_from_file: lists of [text, corrected]
BatchFiles == {
    <<[text |-> TextCertificate, corrected |-> CorrectedFull],
      [text |-> TextEmpty, corrected |-> CorrectedAlt],
      [text |-> TextOther, corrected |-> CorrectedPartial]>>,
    <<[text |-> TextGarbled, corrected |-> CorrectedEmpty],
      [text |-> TextOther, corrected |-> CorrectedAlt]>> }

\* the examples of a file that the loop does not skip ("if not text or not corrected")
Accepted(examples) == SelectSeq(examples, LAMBDA ex : ex.text # <<>> /\ DOMAIN ex.corrected # {})

RECURSIVE BatchLoop(_, _, _)
\* save_correction inside the loop: history is the log with the new record
BatchSave(examples, tagger, run, history) ==
    BatchLoop(Tail(examples), tagger,
              [run EXCEPT !.history = history,
                          !.file = save_corrections_history(history, run.file, run.outcome),
                          !.t = run.t + 1,
                          !.acked = IF run.outcome = "ok" THEN run.acked \cup Entries(history)
                                    ELSE run.acked])

\* the loop of batch_train_from_file over the accepted examples: run is
\* [history, file, t, acked, outcome], the instance's log, the file, the clock,
\* the entries written completely, and how the writes of this run end
BatchLoop(examples, tagger, run) ==
    IF examples = <<>> THEN run
    ELSE BatchSave(examples, tagger, run,
                   Append(run.history,
                          NewCorrection(extract_with_ai(run.history, tagger[1], tagger[2],
                                                        Head(examples).text),
                                        Head(examples).corrected, Head(examples).text, run.t)))

\* what a run of the loop leaves
Ran(run) ==
    /\ disk' = run.file
    /\ now' = run.t
    /\ acked' = run.acked

\* train_ai.batch_train_from_file
BatchTrain(examples, tagger, readable, outcome) ==
    /\ now + Len(Accepted(examples)) <= MaxSaves
    /\ faults + ReadFault(disk, readable) + WriteFault(outcome) <= MaxFaults
    /\ Ran(BatchLoop(Accepted(examples), tagger,
                     [history |-> load_corrections_history(disk, readable),
                      file |-> disk, t |-> now, acked |-> acked, outcome |-> outcome]))
    /\ ret' = Call("batch_train_from_file", 0, <<>>, tagger[2], <<>>, outcome)
    /\ faults' = faults + ReadFault(disk, readable) + WriteFault(outcome)
    /\ UNCHANGED <<up, nlp, mem, writing>>

(***************************************************************************)
(* save_correction in the two steps other processes and a crash can fall   *)
(* between: open(file, 'w') truncates the file, json.dump and the close    *)
(* put the log into it                                                     *)
(***************************************************************************)

\* save_correction up to and including open(self.history_file, 'w')
BeginSave(i, original, text, corrected) ==
    /\ up[i] /\ ~writing[i]
    /\ now < MaxSaves
    /\ mem' = [mem EXCEPT ![i] = Append(mem[i], NewCorrection(original, corrected, text, now))]
    /\ disk' = Torn
    /\ writing' = [writing EXCEPT ![i] = TRUE]
    /\ now' = now + 1
    /\ ret' = Call("open", i, text, <<>>, corrected, "")
    /\ UNCHANGED <<up, nlp, faults, acked>>

\* json.dump(self.corrections_history, f) and the end of the with block
FinishSave(i) ==
    /\ up[i] /\ writing[i]
    /\ disk' = save_corrections_history(mem[i], disk, "ok")
    /\ writing' = [writing EXCEPT ![i] = FALSE]
    /\ acked' = acked \cup Entries(mem[i])
    /\ ret' = Call("save", i, <<>>, <<>>, <<>>, "ok")
    /\ UNCHANGED <<up, nlp, mem, now, faults>>

\* the process of instance i dies between the two steps; result is the log it
\* was writing
Crash(i) ==
    /\ up[i] /\ writing[i]
    /\ up' = [up EXCEPT ![i] = FALSE]
    /\ nlp' = [nlp EXCEPT ![i] = FALSE]
    /\ mem' = [mem EXCEPT ![i] = <<>>]
    /\ writing' = [writing EXCEPT ![i] = FALSE]
    /\ ret' = Call("crash", i, <<>>, <<>>, mem[i], "")
    /\ UNCHANGED <<disk, now, faults, acked>>

(***************************************************************************)
(* The upload handler (app.py) and the calls the scenarios make            *)
(***************************************************************************)

\* found_count of upload_file: the values without a marker
found_count(data) == Cardinality({key \in DOMAIN data : ~HasMarker(data[key])})

\* the status upload_file shows for the extracted data
StatusOf(data) == IF found_count(data) > 0 THEN "processed" ELSE "none_found"

\* a text without any marker of a certificate
TextLorem == <<108, 111, 114, 101, 109, 32, 105, 112, 115, 117, 109>>

\* an emission date whose two separators differ
TextMixedDate == <<69, 109, 105, 116, 105, 100, 111, 32, 101, 109, 32, 49, 53, 45, 48, 49, 47, 50, 48, 50, 53>>

\* the forms the emission date of 15 January 2025 is written in
DateForms == {<<50, 48, 50, 53, 45, 48, 49, 45, 49, 53>>, <<49, 53, 47, 48, 49, 47, 50, 48, 50, 53>>, <<49, 53, 45, 48, 49, 45, 50, 48, 50, 53>>, <<49, 53, 32, 100, 101, 32, 106, 97, 110, 101, 105, 114, 111, 32, 100, 101, 32, 50, 48, 50, 53>>}

\* a document that states its emission date in the given form
DateText(form) == <<69, 109, 105, 116, 105, 100, 111, 32, 101, 109, 32>> \o form

\* the day counts the documents prescribe
Counts == {0, 1, 2, 5, 99, 100, 120, 365, 366}

\* a document that prescribes n days
CountText(n) == ToStr(n) \o (IF n = 1 THEN <<32, 100, 105, 97>> ELSE <<32, 100, 105, 97, 115>>) \o <<32, 100, 101, 32, 114, 101, 112, 111, 117, 115, 111>>

\* emission dates that are no calendar date or whose year is out of range,
\* and one that is the 29th of February of a leap year
DateCheckTexts == {
    <<69, 109, 105, 116, 105, 100, 111, 32, 101, 109, 32, 51, 49, 47, 48, 50, 47, 50, 48, 50, 53>>, <<69, 109, 105, 116, 105, 100, 111, 32, 101, 109, 32, 57, 57, 47, 57, 57, 47, 50, 48, 50, 53>>, <<69, 109, 105, 116, 105, 100, 111, 32, 101, 109, 32, 49, 53, 47, 48, 49, 47, 49, 57, 57, 57>>,
    <<69, 109, 105, 116, 105, 100, 111, 32, 101, 109, 32, 51, 49, 32, 100, 101, 32, 102, 101, 118, 101, 114, 101, 105, 114, 111, 32, 100, 101, 32, 50, 48, 50, 53>>, <<69, 109, 105, 116, 105, 100, 111, 32, 101, 109, 32, 50, 57, 47, 48, 50, 47, 50, 48, 50, 52>> }

\* documents with an anchored date and another date: <<text, the anchored date>>
PrecedenceTexts == {
    <<<<49, 48, 32, 100, 101, 32, 109, 97, 114, 231, 111, 32, 100, 101, 32, 50, 48, 50, 52, 10, 69, 109, 105, 116, 105, 100, 111, 32, 101, 109, 32, 49, 53, 47, 48, 49, 47, 50, 48, 50, 53>>, <<49, 53, 47, 48, 49, 47, 50, 48, 50, 53>>>>,
    <<<<48, 50, 47, 48, 51, 47, 50, 48, 50, 48, 10, 69, 109, 105, 116, 105, 100, 111, 32, 101, 109, 32, 49, 53, 47, 48, 49, 47, 50, 48, 50, 53>>, <<49, 53, 47, 48, 49, 47, 50, 48, 50, 53>>>>,
    <<<<69, 109, 105, 116, 105, 100, 111, 32, 101, 109, 32, 49, 53, 47, 48, 49, 47, 50, 48, 50, 53, 10, 48, 50, 47, 48, 51, 47, 50, 48, 50, 48>>, <<49, 53, 47, 48, 49, 47, 50, 48, 50, 53>>>>,
    <<<<48, 50, 47, 48, 51, 47, 50, 48, 50, 48, 10, 69, 109, 105, 116, 105, 100, 111, 32, 101, 109, 32, 49, 53, 32, 100, 101, 32, 106, 97, 110, 101, 105, 114, 111, 32, 100, 101, 32, 50, 48, 50, 53>>, <<49, 53, 47, 48, 49, 47, 50, 48, 50, 53>>>> }

\* documents with a code: <<text, the code the cascade is to give>>; the code
\* directly after the marker beside another code, a code on the line after
\* and on the line before the marker line, a code in a text with a medical word
CodeTexts == {
    <<<<65, 49, 48, 32, 67, 73, 68, 58, 32, 74, 48, 48>>, <<74, 48, 48>>>>,
    <<<<100, 105, 97, 103, 110, 243, 115, 116, 105, 99, 111, 32, 65, 49, 48, 10, 67, 73, 68, 58, 32, 74, 48, 48>>, <<74, 48, 48>>>>,
    <<<<67, 73, 68, 10, 77, 53, 52>>, <<77, 53, 52>>>>,
    <<<<77, 53, 52, 10, 67, 73, 68>>, <<77, 53, 52>>>>,
    <<<<100, 111, 101, 110, 231, 97, 32, 75, 50, 49>>, <<75, 50, 49>>>> }

\* documents with a title and a name of one word, of lower-case words, of two
\* and of six capitalized words
PersonTexts == {
    <<68, 114, 32, 74, 111, 227, 111>>, <<68, 114, 46, 32, 106, 111, 227, 111, 32, 115, 105, 108, 118, 97>>, <<68, 114, 46, 32, 74, 111, 227, 111, 32, 83, 105, 108, 118, 97>>,
    <<68, 114, 97, 46, 32, 65, 110, 97, 32, 80, 97, 117, 108, 97, 32, 76, 105, 109, 97, 32, 67, 111, 115, 116, 97, 32, 83, 111, 117, 122, 97, 32, 82, 101, 105, 115>> }

\* the documents of the scenarios
ScenarioTexts ==
    {TextCertificate, TextLorem, TextEmpty, TextMixedDate}
    \cup {DateText(form) : form \in DateForms}
    \cup {CountText(n) : n \in Counts}
    \cup DateCheckTexts
    \cup {t[1] : t \in PrecedenceTexts}
    \cup {t[1] : t \in CodeTexts}
    \cup PersonTexts

\* the longest string given to the normalizers
MaxLen == 4

\* a control character, space, tab, line break and a letter
NormAlphabet == {1, 32, 9, 10, 97}

\* the strings over an alphabet up to a length
StringsUpTo(alphabet, n) == UNION {[1..k -> alphabet] : k \in 0..n}

\* the longest text before comparison normalization
MaxSimLen == 4

\* two letters, one of them in upper case, a space and a punctuation mark
SimAlphabet == {97, 66, 32, 33}

\* the comparison-normalized texts whose similarity is computed
ComparisonTexts == {_normalize_for_comparison(s) : s \in StringsUpTo(SimAlphabet, MaxSimLen)}

\* no call has been made yet
Idle == ret.op = "none"

\* NLPService.extract_info(text), called on its own
ExtractInfo(text) ==
    /\ ret' = IF extract_info_raises(text)
              THEN Call("extract_info", 0, text, <<>>, <<>>, "raised")
              ELSE Call("extract_info", 0, text, <<>>, extract_info(text), "ok")
    /\ UNCHANGED <<disk, up, nlp, mem, writing, now, faults, acked>>

\* what upload_file shows for the text the OCR gave: "no_text" for a blank
\* text, "error" when the extraction raises (except Exception), and else the
\* data with the status of found_count
Shown(text) ==
    IF strip(text) = <<>> THEN Call("upload_file", 0, text, <<>>, <<>>, "no_text")
    ELSE IF extract_info_raises(text) THEN Call("upload_file", 0, text, <<>>, <<>>, "error")
    ELSE Call("upload_file", 0, text, <<>>, extract_info(text), StatusOf(extract_info(text)))

\* app.upload_file from the text of the OCR on
UploadFile(text) ==
    /\ ret' = Shown(text)
    /\ UNCHANGED <<disk, up, nlp, mem, writing, now, faults, acked>>

\* AIService._normalize_text(s)
NormalizeText(s) ==
    /\ ret' = Call("_normalize_text", 0, s, <<>>, _normalize_text(s), "ok")
    /\ UNCHANGED <<disk, up, nlp, mem, writing, now, faults, acked>>

\* the normalization at the head of NLPService.extract_info
SafeText(s) ==
    /\ ret' = Call("safe_text", 0, s, <<>>, safe_text(s), "ok")
    /\ UNCHANGED <<disk, up, nlp, mem, writing, now, faults, acked>>

\* AIService._calculate_similarity(text1, text2)
Similarity(text1, text2) ==
    /\ ret' = Call("_calculate_similarity", 0, <<text1, text2>>, <<>>,
                   _calculate_similarity(text1, text2), "ok")
    /\ UNCHANGED <<disk, up, nlp, mem, writing, now, faults, acked>>

\* AIService.extract_with_ai(text) on an instance whose log is empty
ExtractFresh(i, text) ==
    /\ mem[i] = <<>>
    /\ ret.op = "load"
    /\ Extract(i, text, <<>>)

(***************************************************************************)
(* The matcher and per-field replay, called on the log of an instance      *)
(***************************************************************************)

\* a corrected mapping whose Person still carries a marker of "not found"
CorrectedUnresolved ==
    (KeyCID :> <<77, 53, 52, 46, 53>>) @@ (KeyMedico :> <<77, 233, 100, 105, 99, 111, 32, 110, 227, 111, 32, 102, 111, 105, 32, 101, 110, 99, 111, 110, 116, 114, 97, 100, 111>>)

\* a document of more than 500 characters: a filler word 84 times, then the
\* words of a certificate
TextLong == <<108, 111, 114, 101, 109, 32, 108, 111, 114, 101, 109, 32, 108, 111, 114, 101, 109, 32, 108, 111, 114, 101, 109, 32, 108, 111, 114, 101, 109, 32, 108, 111, 114, 101, 109, 32, 108, 111, 114, 101, 109, 32, 108, 111, 114, 101, 109, 32, 108, 111, 114, 101, 109, 32, 108, 111, 114, 101, 109, 32, 108, 111, 114, 101, 109, 32, 108, 111, 114, 101, 109, 32, 108, 111, 114, 101, 109, 32, 108, 111, 114, 101, 109, 32, 108, 111, 114, 101, 109, 32, 108, 111, 114, 101, 109, 32, 108, 111, 114, 101, 109, 32, 108, 111, 114, 101, 109, 32, 108, 111, 114, 101, 109, 32, 108, 111, 114, 101, 109, 32, 108, 111, 114, 101, 109, 32, 108, 111, 114, 101, 109, 32, 108, 111, 114, 101, 109, 32, 108, 111, 114, 101, 109, 32, 108, 111, 114, 101, 109, 32, 108, 111, 114, 101, 109, 32, 108, 111, 114, 101, 109, 32, 108, 111, 114, 101, 109, 32, 108, 111, 114, 101, 109, 32, 108, 111, 114, 101, 109, 32, 108, 111, 114, 101, 109, 32, 108, 111, 114, 101, 109, 32, 108, 111, 114, 101, 109, 32, 108, 111, 114, 101, 109, 32, 108, 111, 114, 101, 109, 32, 108, 111, 114, 101, 109, 32, 108, 111, 114, 101, 109, 32, 108, 111, 114, 101, 109, 32, 108, 111, 114, 101, 109, 32, 108, 111, 114, 101, 109, 32, 108, 111, 114, 101, 109, 32, 108, 111, 114, 101, 109, 32, 108, 111, 114, 101, 109, 32, 108, 111, 114, 101, 109, 32, 108, 111, 114, 101, 109, 32, 108, 111, 114, 101, 109, 32, 108, 111, 114, 101, 109, 32, 108, 111, 114, 101, 109, 32, 108, 111, 114, 101, 109, 32, 108, 111, 114, 101, 109, 32, 108, 111, 114, 101, 109, 32, 108, 111, 114, 101, 109, 32, 108, 111, 114, 101, 109, 32, 108, 111, 114, 101, 109, 32, 108, 111, 114, 101, 109, 32, 108, 111, 114, 101, 109, 32, 108, 111, 114, 101, 109, 32, 108, 111, 114, 101, 109, 32, 108, 111, 114, 101, 109, 32, 108, 111, 114, 101, 109, 32, 108, 111, 114, 101, 109, 32, 108, 111, 114, 101, 109, 32, 108, 111, 114, 101, 109, 32, 108, 111, 114, 101, 109, 32, 108, 111, 114, 101, 109, 32, 108, 111, 114, 101, 109, 32, 108, 111, 114, 101, 109, 32, 108, 111, 114, 101, 109, 32, 108, 111, 114, 101, 109, 32, 108, 111, 114, 101, 109, 32, 108, 111, 114, 101, 109, 32, 108, 111, 114, 101, 109, 32, 108, 111, 114, 101, 109, 32, 108, 111, 114, 101, 109, 32, 108, 111, 114, 101, 109, 32, 108, 111, 114, 101, 109, 32, 108, 111, 114, 101, 109, 32, 108, 111, 114, 101, 109, 32, 108, 111, 114, 101, 109, 32, 108, 111, 114, 101, 109, 32, 108, 111, 114, 101, 109, 32, 108, 111, 114, 101, 109, 32, 108, 111, 114, 101, 109, 32, 108, 111, 114, 101, 109, 32, 65, 116, 101, 115, 116, 97, 100, 111, 32, 109, 233, 100, 105, 99, 111, 32, 68, 114, 46, 32, 74, 111, 227, 111, 32, 83, 105, 108, 118, 97, 32, 49, 48, 47, 48, 50, 47, 50, 48, 50, 53, 32, 67, 73, 68, 32, 74, 49, 49>>

\* the (text, corrected) pairs submitted to the log the matcher reads
ReplaySubmissions ==
    Submissions \cup {<<TextGarbled, CorrectedAlt>>, <<TextCertificate, CorrectedUnresolved>>,
                      <<TextLong, CorrectedFull>>}

\* the original mapping passed with a correction: what extraction without
\* history gives for the text
DraftOf(text) ==
    IF text \in Texts THEN OriginalOf(text) ELSE extract_with_ai(<<>>, FALSE, <<>>, text)

\* self._find_similar_correction(normalized_text) of extract_with_ai, on its own
FindSimilar(i, text) ==
    /\ up[i] /\ ~writing[i]
    /\ ret' = Call("_find_similar_correction", i, text, <<>>,
                   _find_similar_correction(mem[i], Normalize(text)), "ok")
    /\ UNCHANGED <<disk, up, nlp, mem, writing, now, faults, acked>>

\* self._apply_learned_patterns(normalized_text, validated_results) of
\* extract_with_ai, on its own: entities holds the results it is given
Replay(i, text, validated_results) ==
    /\ up[i] /\ ~writing[i]
    /\ ret' = Call("_apply_learned_patterns", i, text, validated_results,
                   _apply_learned_patterns(mem[i], Normalize(text), validated_results), "ok")
    /\ UNCHANGED <<disk, up, nlp, mem, writing, now, faults, acked>>

\* per-field replay on the draft of a document
ApplyLearned(i, text) == Replay(i, text, Draft(FALSE, <<>>, Normalize(text)))


(***************************************************************************)
(* The mappings a caller shares with the log: save_correction stores the   *)
(* caller's own original and corrected objects in the record, and a        *)
(* whole-record match hands the caller the record's own corrected object   *)
(***************************************************************************)

RECURSIVE MatchIndex(_, _, _, _, _)

\* one turn of the loop of _find_similar_correction on record k
CompareAt(history, text_normalized, k, best_similarity, best_index, similarity) ==
    IF /\ HistoryText(history[k]) # <<>>
       /\ Greater(similarity, best_similarity)
       /\ AtLeast(similarity, SimilarityThreshold)
    THEN MatchIndex(history, text_normalized, k + 1, similarity, k)
    ELSE MatchIndex(history, text_normalized, k + 1, best_similarity, best_index)

\* the position in the log of the record whose corrected object the loop of
\* _find_similar_correction holds in best_match after record k - 1 (0: none)
MatchIndex(history, text_normalized, k, best_similarity, best_index) ==
    IF k > Len(history) THEN best_index
    ELSE CompareAt(history, text_normalized, k, best_similarity, best_index,
                   _calculate_similarity(text_normalized,
                                         NormalizeForComparison(HistoryText(history[k]))))

\* the record whose corrected object extract_with_ai(text) returns (0: the
\* result is a new mapping)
ReturnedRecord(history, text) ==
    IF _find_similar_correction(history, Normalize(text)).found
    THEN MatchIndex(history, NormalizeForComparison(Normalize(text)), 1, Zero, 0)
    ELSE 0

\* d[key] = value
SetItem(d, key, value) ==
    [k \in DOMAIN d \cup {key} |-> IF k = key THEN value ELSE d[k]]

\* the value a caller assigns
CallerValue == <<90, 57, 57>>

\* the caller of extract_with_ai assigns a field of the mapping it was handed
\* by a whole-record match
MutateReturned(i, key, value) ==
    /\ up[i] /\ ~writing[i]
    /\ ret.op = "extract" /\ ret.inst = i
    /\ ReturnedRecord(mem[i], ret.text) > 0
    /\ mem' = [mem EXCEPT ![i][ReturnedRecord(mem[i], ret.text)].corrected = SetItem(@, key, value)]
    /\ ret' = Call("caller_sets_returned", i, ret.text, <<>>, SetItem(ret.result, key, value), "ok")
    /\ UNCHANGED <<disk, up, nlp, writing, now, faults, acked>>

\* the caller of save_correction assigns a field of the original or corrected
\* mapping it passed
MutatePassed(i, field, key, value) ==
    /\ up[i] /\ ~writing[i]
    /\ ret.op = "save" /\ ret.inst = i
    /\ mem[i] # <<>>
    /\ mem' = [mem EXCEPT ![i][Len(mem[i])][field] = SetItem(@, key, value)]
    /\ ret' = Call("caller_sets_passed", i, ret.text, <<>>, mem'[i][Len(mem[i])][field], "ok")
    /\ UNCHANGED <<disk, up, nlp, writing, now, faults, acked>>

(***************************************************************************)
(* Specifications                                                          *)
(***************************************************************************)

\* one long-lived instance and the train_ai commands, one call after the other,
\* with the storage failing as it may
Next ==
    \/ \E model_loaded, readable \in BOOLEAN : Start(1, model_loaded, readable)
    \/ \E text \in Texts, entities \in EntityChoices : Extract(1, text, entities)
    \/ \E s \in Submissions, outcome \in WriteOutcomes : SaveCorrection(1, OriginalOf(s[1]), s[1], s[2], outcome)
    \/ Stop(1)
    \/ \E text \in ManualTexts, edits \in ManualEdits, tagger \in TaggerChoices,
          readable \in BOOLEAN, outcome \in WriteOutcomes :
            AddTrainingExample(text, edits, tagger, readable, outcome)
    \/ \E examples \in BatchFiles, tagger \in TaggerChoices,
          readable \in BOOLEAN, outcome \in WriteOutcomes :
            BatchTrain(examples, tagger, readable, outcome)

Spec == Init /\ [][Next]_vars

\* one process at a time, each with one instance: it starts, extracts and
\* saves, ends, and the next one starts
NextSingle ==
    \/ \E model_loaded, readable \in BOOLEAN : Start(1, model_loaded, readable)
    \/ \E text \in Texts, entities \in EntityChoices : Extract(1, text, entities)
    \/ \E s \in Submissions, outcome \in WriteOutcomes : SaveCorrection(1, OriginalOf(s[1]), s[1], s[2], outcome)
    \/ Stop(1)

SpecSingle == Init /\ [][NextSingle]_vars

\* two processes with an instance each, their steps interleaved; the storage
\* never fails
NextConc ==
    \E i \in Instances :
        \/ Start(i, FALSE, TRUE)
        \/ \E text \in Texts : Extract(i, text, <<>>)
        \/ \E s \in Submissions : BeginSave(i, OriginalOf(s[1]), s[1], s[2])
        \/ FinishSave(i)
        \/ Stop(i)

SpecConc == Init /\ [][NextConc]_vars

\* one process that may die while it saves, and its successors
NextCrash ==
    \/ \E model_loaded \in BOOLEAN : Start(1, model_loaded, TRUE)
    \/ \E text \in Texts, entities \in EntityChoices : Extract(1, text, entities)
    \/ \E s \in Submissions : BeginSave(1, OriginalOf(s[1]), s[1], s[2])
    \/ FinishSave(1)
    \/ Crash(1)
    \/ Stop(1)

SpecCrash == Init /\ [][NextCrash]_vars


\* the calls of the scenarios, each made first thing or, for an AIService,
\* right after its start with an empty log: the upload handler and NLPService
\* on the documents, AIService on the same documents, the normalizers on short
\* strings, the similarity on short texts
NextPure ==
    \/ Idle /\ Start(1, FALSE, TRUE)
    \/ \E text \in ScenarioTexts : ExtractFresh(1, text)
    \/ Idle /\ \E text \in ScenarioTexts : ExtractInfo(text)
    \/ Idle /\ \E text \in ScenarioTexts : UploadFile(text)
    \/ Idle /\ \E s \in StringsUpTo(NormAlphabet, MaxLen) : NormalizeText(s)
    \/ Idle /\ \E s \in StringsUpTo(NormAlphabet, MaxLen) : SafeText(s)
    \/ Idle /\ \E text1, text2 \in ComparisonTexts : Similarity(text1, text2)

SpecPure == Init /\ [][NextPure]_vars

\* one instance whose log grows by corrections that are all written, and the
\* matcher, per-field replay and the extraction called on that log
NextReplay ==
    \/ Start(1, FALSE, TRUE)
    \/ \E s \in ReplaySubmissions : SaveCorrection(1, DraftOf(s[1]), s[1], s[2], "ok")
    \/ \E text \in Texts : FindSimilar(1, text)
    \/ \E text \in Texts : ApplyLearned(1, text)
    \/ \E text \in Texts : Extract(1, text, <<>>)

SpecReplay == Init /\ [][NextReplay]_vars

\* one instance, its log, the extraction, and a caller that assigns to the
\* mappings it passed to save_correction or was handed by extract_with_ai
NextAlias ==
    \/ Start(1, FALSE, TRUE)
    \/ \E s \in Submissions : SaveCorrection(1, OriginalOf(s[1]), s[1], s[2], "ok")
    \/ \E text \in Texts : Extract(1, text, <<>>)
    \/ MutateReturned(1, KeyCID, CallerValue)
    \/ \E field \in {"original", "corrected"} : MutatePassed(1, field, KeyCID, CallerValue)

SpecAlias == Init /\ [][NextAlias]_vars

(***************************************************************************)
(* Properties                                                              *)
(***************************************************************************)

\* what a successful read of the file gives
Stored == load_corrections_history(disk, TRUE)

\* the token set two texts are compared by
TokenSet(text) == SplitSet(NormalizeForComparison(text))

\* the draft of the last extraction call, and what per-field replay makes of it
LastDraft == Draft(nlp[ret.inst], ret.entities, Normalize(ret.text))
LastReplayed == _apply_learned_patterns(mem[ret.inst], Normalize(ret.text), LastDraft)

\* the canonical "not found" message of each field
NotFoundMessage ==
    (KeyCID :> NotFoundCID) @@ (KeyMedico :> NotFoundMedico)
    @@ (KeyData :> NotFoundData) @@ (KeyDias :> NotFoundDias)

\* C1: an extraction call returns a mapping with exactly the four field keys,
\* whatever the text and the correction log, also when the result comes from
\* whole-record replay.
C1_FourKeys == ret.op = "extract" => DOMAIN ret.result = FieldKeySet

\* C2 as stated: whenever the log holds a record whose source text has the
\* token set of the current text, the extraction returns that record's
\* corrected mapping, whatever other records the log holds.  (Read for texts
\* with at least one token and records whose mapping covers the four keys.)
C2_ReplaysEveryIdentical ==
    ret.op = "extract" =>
        \A k \in 1..Len(mem[ret.inst]) :
            /\ TokenSet(ret.text) # {}
            /\ TokenSet(mem[ret.inst][k].text_full) = TokenSet(ret.text)
            /\ FieldKeySet \subseteq DOMAIN mem[ret.inst][k].corrected
            => ret.result = mem[ret.inst][k].corrected

\* the record scores 1.0 against the text: its stored text and the normalized
\* text have the same, non-empty token set after comparison normalization, and
\* neither is less than half as long as the other
ExactMatch(record, text) ==
    LET a == NormalizeForComparison(Normalize(text))
        b == NormalizeForComparison(HistoryText(record))
    IN  /\ SplitSet(a) # {}
        /\ SplitSet(a) = SplitSet(b)
        /\ 2 * Len(a) >= Len(b) /\ 2 * Len(b) >= Len(a)

\* C2, amended: when records of the log score 1.0 against the current text, the
\* extraction returns the corrected mapping of the earliest of them, whatever
\* fresh extraction gives and whatever other records the log holds; if that
\* mapping is empty the record counts as no match and the result is the draft
\* after per-field replay.
C2_ReplaysEarliestExact ==
    ret.op = "extract" =>
        LET history == mem[ret.inst]
            exact == {k \in 1..Len(history) : ExactMatch(history[k], ret.text)}
        IN  exact # {} =>
                LET first == CHOOSE a \in exact : \A b \in exact : a <= b
                IN  ret.result = IF DOMAIN history[first].corrected # {}
                                 THEN history[first].corrected
                                 ELSE LastReplayed

\* two records score 1.0, with different corrected mappings, and the first one
\* is returned in place of the fresh extraction
C2_Witness ==
    /\ ret.op = "extract"
    /\ Len(mem[ret.inst]) = 2
    /\ ExactMatch(mem[ret.inst][1], ret.text)
    /\ ExactMatch(mem[ret.inst][2], ret.text)
    /\ mem[ret.inst][1].corrected # mem[ret.inst][2].corrected
    /\ ret.result = mem[ret.inst][1].corrected
    /\ ret.result # LastDraft

\* C3: per-field replay never changes a field the draft resolved: a field whose
\* draft value is not its "not found" message has the same value afterwards.
C3_ResolvedFieldsKept ==
    ret.op = "extract" =>
        \A key \in FieldKeySet :
            LastDraft[key] # NotFoundMessage[key] => LastReplayed[key] = LastDraft[key]

\* an extraction that per-field replay decided: it filled an unresolved field
\* and left a resolved one
C3_Witness ==
    /\ ret.op = "extract"
    /\ ret.result = LastReplayed
    /\ \E key \in FieldKeySet : LastReplayed[key] # LastDraft[key]
    /\ \E key \in FieldKeySet : LastDraft[key] # NotFoundMessage[key]

\* C4: every record of a correction log, in memory or stored, has a corrected
\* mapping that covers the four field keys (a submission lacking one is
\* rejected before it is appended).
C4_RecordsComplete ==
    /\ \A i \in Instances : \A k \in 1..Len(mem[i]) :
           FieldKeySet \subseteq DOMAIN mem[i][k].corrected
    /\ \A k \in 1..Len(Stored) : FieldKeySet \subseteq DOMAIN Stored[k].corrected

\* C5: the in-memory log is append-only: while an instance lives every record
\* stays at its position, a save_correction call makes the log exactly one
\* record longer with the record of the call last, and extract_with_ai leaves
\* the log as it is.
C5_AppendOnly ==
    [][\A i \in Instances :
          /\ (up[i] /\ up'[i]) =>
                /\ Len(mem'[i]) >= Len(mem[i])
                /\ SubSeq(mem'[i], 1, Len(mem[i])) = mem[i]
          /\ (ret'.op = "save" /\ ret'.inst = i /\ now' # now) =>
                /\ Len(mem'[i]) = Len(mem[i]) + 1
                /\ mem'[i][Len(mem'[i])].corrected = ret'.result
                /\ mem'[i][Len(mem'[i])].text_full = ret'.text
          /\ ret'.op = "extract" => mem'[i] = mem[i]]_vars

\* an extraction over a log two appends made, the records in the order of the
\* calls
C5_Witness ==
    /\ ret.op = "extract"
    /\ Len(mem[ret.inst]) = 2
    /\ mem[ret.inst][1].timestamp = IsoFormat(0)
    /\ mem[ret.inst][2].timestamp = IsoFormat(1)

\* C6: in sequential use of one instance at a time, a record once persisted is
\* still in the file at the same position after every later successful save,
\* also when a load in between found the file unreadable.
C6_PersistedStay ==
    (ret.op = "save" /\ ret.note = "ok") =>
        \A e \in acked : e[1] <= Len(Stored) /\ Stored[e[1]] = e[2]

\* C7: after a save_correction whose write succeeds the file holds the whole
\* in-memory log, and a load of it gives a log equal to the in-memory one,
\* record by record and attribute by attribute.
C7_RoundTrip ==
    (ret.op = "save" /\ ret.note = "ok") =>
        /\ disk.kind = "json"
        /\ Len(disk.doc) = Len(mem[ret.inst])
        /\ load_corrections_history(disk, TRUE) = mem[ret.inst]

\* a successful save of a log of two records, one of a text with line breaks
\* and letters outside ASCII
C7_Witness ==
    /\ ret.op = "save" /\ ret.note = "ok"
    /\ Len(mem[ret.inst]) = 2
    /\ \E k \in 1..2 : \E p \in DOMAIN mem[ret.inst][k].text_full :
           mem[ret.inst][k].text_full[p] = 10
    /\ \E k \in 1..2 : \E p \in DOMAIN mem[ret.inst][k].text_full :
           mem[ret.inst][k].text_full[p] > 127
    /\ Stored = mem[ret.inst]

\* C8: a crash during save_corrections_history, the file holding records
\* before, leaves the file holding the complete old log or the complete new
\* one, never an empty, truncated or unparseable file.
C8_AtomicWrite ==
    (ret.op = "crash" /\ Len(ret.result) > 1) =>
        /\ disk.kind = "json"
        /\ \/ Stored = ret.result
           \/ Stored = SubSeq(ret.result, 1, Len(ret.result) - 1)

\* C9: when no write is under way, every record that a completed
\* save_correction of either instance appended is in the file.
C9_NoLostAppend ==
    (\A i \in Instances : ~writing[i]) =>
        \A e \in acked : \E k \in 1..Len(Stored) : Stored[k] = e[2]

\* the last call was a load that met a missing file or one it could not read
\* or parse
LoadFailed == ret.op = "load" /\ ret.note \in {"missing", "unreadable"}

\* C10: a load that meets a missing, unreadable or unparseable file leaves the
\* instance running with an empty log, and an extraction that follows returns
\* the four-field result of extraction alone.
C10_LoadNeverFails ==
    /\ [](LoadFailed => up[ret.inst] /\ mem[ret.inst] = <<>>)
    /\ [][(LoadFailed /\ ret'.op = "extract") =>
            /\ DOMAIN ret'.result = FieldKeySet
            /\ ret'.result = Draft(nlp'[ret'.inst], ret'.entities, Normalize(ret'.text))]_vars

\* an extraction on an instance whose load could not read a file that holds
\* records: the log is empty and the result is the draft
C10_Witness ==
    /\ ret.op = "extract"
    /\ faults = 1
    /\ mem[ret.inst] = <<>>
    /\ disk.kind = "json" /\ Len(disk.doc) > 0
    /\ ret.result = LastDraft
    /\ \E key \in FieldKeySet : ret.result[key] # NotFoundMessage[key]

\* the last record of a log is the one the last call submitted
LastIsSubmitted(history, call) ==
    /\ history # <<>>
    /\ history[Len(history)].corrected = call.result
    /\ history[Len(history)].text_full = call.text

\* the records of a log that score 1.0 against a text
ExactRecords(history, text) == {k \in 1..Len(history) : ExactMatch(history[k], text)}

\* C11: when the write to storage fails during save_correction, the log in
\* memory still has the new record as its last element, and an extraction of
\* the same text that follows in the same process replays it (the record being
\* the only one that scores 1.0 against the text, and its mapping not empty).
C11_FailedSaveKept ==
    [][ /\ (ret'.op = "save" /\ ret'.note # "ok") => LastIsSubmitted(mem'[ret'.inst], ret')
        /\ ( /\ ret.op = "save" /\ ret.note # "ok"
             /\ ret'.op = "extract" /\ ret'.text = ret.text
             /\ DOMAIN ret.result # {}
             /\ ExactRecords(mem[ret.inst], ret.text) = {Len(mem[ret.inst])} )
           => ret'.result = ret.result ]_vars

\* an extraction returned the mapping of the last record of the log, which is
\* not what it drafted and which the file does not hold
C11_Witness ==
    /\ ret.op = "extract"
    /\ faults > 0
    /\ LastIsSubmitted(mem[ret.inst], ret)
    /\ Len(Stored) < Len(mem[ret.inst])
    /\ ExactRecords(mem[ret.inst], ret.text) = {Len(mem[ret.inst])}
    /\ DOMAIN ret.result # {}
    /\ ret.result # LastDraft

\* C12: when the write to storage fails, save_correction reports the failure
\* to its caller: what it returns or raises differs from what it returns
\* after a successful write.
C12_FailureReported ==
    (ret.op = "save" /\ ret.note # "ok")
        => save_correction_returns(ret.note) # save_correction_returns("ok")

\* the fields of a mapping that do not carry their not-found message
Resolved(data) == {key \in DOMAIN data : data[key] # NotFoundMessage[key]}

\* C13: in what the upload handler and an extraction give, a field carries its
\* canonical not-found message exactly when the marker test ("não foi
\* encontrado" or "não foram encontrados" in the value) classifies it as
\* unresolved, and the found-field count of the upload handler is the number
\* of fields that do not carry their message.
C13_MarkerRecognised ==
    (ret.op \in {"upload_file", "extract"} /\ DOMAIN ret.result # {}) =>
        /\ \A key \in DOMAIN ret.result :
              (ret.result[key] = NotFoundMessage[key]) <=> HasMarker(ret.result[key])
        /\ ret.op = "upload_file" => found_count(ret.result) = Cardinality(Resolved(ret.result))

\* C14: no extractor raises: for every document, NLPService.extract_info and
\* AIService.extract_with_ai return a mapping of the four fields, each with a
\* candidate or its not-found message, also when the emission date has mixed
\* separators such as DD-MM/YYYY.
C14_NoExtractorRaises ==
    ret.op \in {"extract_info", "extract"} =>
        /\ ret.note = "ok"
        /\ DOMAIN ret.result = FieldKeySet

\* the mapping the four-line certificate is to give
ScenarioResult ==
    (KeyCID :> <<74, 48, 48>>) @@ (KeyMedico :> <<68, 114, 46, 32, 74, 111, 227, 111, 32, 83, 105, 108, 118, 97>>)
    @@ (KeyData :> <<49, 53, 47, 48, 49, 47, 50, 48, 50, 53>>) @@ (KeyDias :> <<53, 32, 100, 105, 97, 115, 32, 100, 101, 32, 114, 101, 112, 111, 117, 115, 111>>)

\* C15: with an empty correction log, the four-line certificate "CID: J00 /
\* Dr. João Silva / Emitido em 15/01/2025 / 5 dias de repouso" yields exactly
\* Code "J00", Person "Dr. João Silva", Date "15/01/2025" and Count "5 dias de
\* repouso"; the person's name does not run into the following line.
C15_Scenario ==
    (ret.op \in {"extract_info", "extract"} /\ ret.text = TextCertificate) =>
        /\ ret.note = "ok"
        /\ ret.result = ScenarioResult

\* C16: with an empty correction log, a text without recognisable markers
\* ("lorem ipsum", or the empty string) yields the canonical not-found message
\* in each of the four fields.
C16_NothingFound ==
    (ret.op \in {"extract_info", "extract"} /\ ret.text \in {TextLorem, TextEmpty}) =>
        /\ ret.note = "ok"
        /\ ret.result = NotFoundMessage

\* NLPService gave the four messages for "lorem ipsum"
C16_Witness ==
    /\ ret.op = "extract_info"
    /\ ret.text = TextLorem
    /\ ret.result = NotFoundMessage

\* C17: the similarity is symmetric: for every pair of comparison-normalized
\* texts, _calculate_similarity(a, b) is _calculate_similarity(b, a), also when
\* the size penalty applies and when a text is empty.
C17_Symmetric ==
    ret.op = "_calculate_similarity" =>
        ret.result = _calculate_similarity(ret.text[2], ret.text[1])

\* the similarity of a text and one more than twice as long that shares a word
\* with it was computed, with the penalty
C17_Witness ==
    /\ ret.op = "_calculate_similarity"
    /\ 2 * Len(ret.text[1]) < Len(ret.text[2])
    /\ ret.result[1] > 0
    /\ ret.result = <<7 * Cardinality(SplitSet(ret.text[1]) \cap SplitSet(ret.text[2])),
                       10 * Cardinality(SplitSet(ret.text[1]) \cup SplitSet(ret.text[2]))>>

\* how a count of n days is to be rendered
Rendered(n) ==
    IF n = 1 THEN <<49, 32, 100, 105, 97, 32, 100, 101, 32, 114, 101, 112, 111, 117, 115, 111>>
    ELSE IF n \in 2..365 THEN ToStr(n) \o <<32, 100, 105, 97, 115, 32, 100, 101, 32, 114, 101, 112, 111, 117, 115, 111>>
    ELSE NotFoundDias

\* C18: a document that prescribes 1 day gives the Count "1 dia de repouso",
\* one that prescribes n days, n in 2..365, gives "<n> dias de repouso", and
\* one with a count outside 1..365 (0 included) or without a count gives the
\* Count not-found message.
C18_CountRendered ==
    ret.op \in {"extract_info", "extract"} =>
        /\ \A n \in Counts : ret.text = CountText(n) => ret.result[KeyDias] = Rendered(n)
        /\ ret.text = TextLorem => ret.result[KeyDias] = NotFoundDias

\* C19: a document whose emission date is written "2025-01-15", "15/01/2025",
\* "15-01-2025" or "15 de janeiro de 2025" gives the same Date, "15/01/2025".
C19_DateForms ==
    (ret.op \in {"extract_info", "extract"} /\ ret.text \in {DateText(form) : form \in DateForms}) =>
        ret.result[KeyData] = <<49, 53, 47, 48, 49, 47, 50, 48, 50, 53>>

\* C20: the normalizers are idempotent: normalizing what AIService._normalize_text
\* returned, or what the normalization of NLPService.extract_info returned,
\* changes nothing.
C20_Idempotent ==
    /\ ret.op = "_normalize_text" => _normalize_text(ret.result) = ret.result
    /\ ret.op = "safe_text" => safe_text(ret.result) = ret.result

\* the two texts of a similarity call and their token sets
SimWords1 == SplitSet(ret.text[1])
SimWords2 == SplitSet(ret.text[2])

\* the shorter text of a similarity call is less than half as long as the longer
SizePenalty ==
    \/ 2 * Len(ret.text[1]) < Len(ret.text[2])
    \/ 2 * Len(ret.text[2]) < Len(ret.text[1])

\* C24: the similarity score is the Jaccard ratio of the two token sets, times
\* 0.7 exactly when the shorter text is less than half as long as the longer;
\* it is 0 when a text or a token set is empty, and it lies in [0, 1].
C24_JaccardScore ==
    ret.op = "_calculate_similarity" =>
        /\ ret.result[2] > 0
        /\ 0 <= ret.result[1] /\ ret.result[1] <= ret.result[2]
        /\ IF SimWords1 = {} \/ SimWords2 = {}
           THEN ret.result[1] = 0
           ELSE IF SizePenalty
           THEN 10 * ret.result[1] * Cardinality(SimWords1 \cup SimWords2)
                    = 7 * ret.result[2] * Cardinality(SimWords1 \cap SimWords2)
           ELSE ret.result[1] * Cardinality(SimWords1 \cup SimWords2)
                    = ret.result[2] * Cardinality(SimWords1 \cap SimWords2)

\* a score was computed for a first text more than twice as long as the
\* second, with common and with differing words
C24_Witness ==
    /\ ret.op = "_calculate_similarity"
    /\ 2 * Len(ret.text[2]) < Len(ret.text[1])
    /\ SimWords1 \cap SimWords2 # {}
    /\ SimWords1 # SimWords2
    /\ 10 * ret.result[1] < 7 * ret.result[2]

\* DD/MM/YYYY of a day that exists, in a year from 2000 to the year after the
\* current one
RealDate(d) ==
    /\ Len(d) = 10
    /\ d[3] = 47 /\ d[6] = 47
    /\ \A i \in {1, 2, 4, 5, 7, 8, 9, 10} : d[i] \in Digit
    /\ ToInt(SubSeq(d, 7, 10)) \in 2000..(CurrentYear + 1)
    /\ ToInt(SubSeq(d, 4, 5)) \in 1..12
    /\ ToInt(SubSeq(d, 1, 2)) \in 1..DaysInMonth(ToInt(SubSeq(d, 4, 5)), ToInt(SubSeq(d, 7, 10)))

\* C25: the Date of a result is the not-found message or a real calendar date
\* whose year lies in [2000, current year + 1]; a matched date that is no
\* calendar date (31/02/2025, 99/99/2025) or whose year is out of range is
\* never returned, by either service.
C25_DateValidated ==
    (ret.op \in {"extract_info", "extract"} /\ ret.note = "ok") =>
        \/ ret.result[KeyData] = NotFoundData
        \/ RealDate(ret.result[KeyData])

\* C26: a date anchored to an emission marker is preferred over an unanchored
\* date, wherever each stands in the text and whichever form each has.
C26_AnchoredFirst ==
    ret.op \in {"extract_info", "extract"} =>
        \A t \in PrecedenceTexts : ret.text = t[1] => ret.result[KeyData] = t[2]

\* C27: the code rules are tried in the order marker directly before the code,
\* code on the marker's line or on a line next to it, code anywhere in a text
\* with a medical word: the code directly after "CID" wins over any other
\* code, and a code on the line before or after a marker line is found when
\* the first rule fails.
C27_CodeCascade ==
    ret.op \in {"extract_info", "extract"} =>
        \A t \in CodeTexts : ret.text = t[1] => ret.result[KeyCID] = t[2]

\* the title markers of a person
Titles == {<<68, 114>>, <<68, 114, 46>>, <<68, 114, 97>>, <<68, 114, 97, 46>>, <<68, 82>>, <<68, 82, 46>>, <<68, 82, 65>>, <<68, 82, 65, 46>>}

\* a title followed by two to five words that each start in upper case
TitledName(value) ==
    LET starts == TokenStarts(value)
    IN  /\ starts # {}
        /\ LET first == CHOOSE i \in starts : \A j \in starts : i <= j
           IN  /\ SubSeq(value, first, TokenEnd(value, first)) \in Titles
               /\ Cardinality(starts) - 1 \in 2..5
               /\ \A i \in starts \ {first} : IsUpper(value[i])

\* C28: a resolved Person is a title followed by at least 2 and at most 5
\* words that each start in upper case; a title followed by one word or by
\* lower-case words gives the Person not-found message.
C28_PersonValidated ==
    (ret.op \in {"extract_info", "extract"} /\ ret.note = "ok") =>
        \/ ret.result[KeyMedico] = NotFoundMedico
        \/ TitledName(ret.result[KeyMedico])

\* the score of record k of a log against a document
Score(history, k, text) ==
    _calculate_similarity(NormalizeForComparison(Normalize(text)),
                          NormalizeForComparison(HistoryText(history[k])))

\* the records of a log that score at least 0.70 against a document
Eligible(history, text) ==
    {k \in 1..Len(history) : AtLeast(Score(history, k, text), SimilarityThreshold)}

\* the earliest of the eligible records with the highest score
Best(history, text) ==
    CHOOSE k \in Eligible(history, text) :
        \A j \in Eligible(history, text) :
            \/ Greater(Score(history, k, text), Score(history, j, text))
            \/ (~Greater(Score(history, j, text), Score(history, k, text)) /\ k <= j)

\* C21: the matcher returns the corrected mapping of the record with the
\* highest score among those scoring at least 0.70, the earliest of them when
\* several share that score, also when that mapping is empty; it returns
\* nothing when no record reaches 0.70.
C21_BestRecord ==
    ret.op = "_find_similar_correction" =>
        IF Eligible(mem[ret.inst], ret.text) = {}
        THEN ~ret.result.found
        ELSE /\ ret.result.found
             /\ ret.result.corrected = mem[ret.inst][Best(mem[ret.inst], ret.text)].corrected

\* the matcher has a match for the last call: a record is eligible and the
\* mapping of the best one is not empty
Matched ==
    /\ Eligible(mem[ret.inst], ret.text) # {}
    /\ DOMAIN mem[ret.inst][Best(mem[ret.inst], ret.text)].corrected # {}

\* C22: when the matcher has a match, the result of the extraction is that
\* record's corrected mapping and nothing else, no field coming from fresh
\* extraction or from per-field replay; per-field replay gives the result only
\* when the matcher has no match.
C22_OverlayStaging ==
    ret.op = "extract" =>
        IF Matched
        THEN ret.result = mem[ret.inst][Best(mem[ret.inst], ret.text)].corrected
        ELSE ret.result = LastReplayed

\* an extraction returned the mapping of a record that covers only some of the
\* fields, although the draft and a record for per-field replay had the others
C22_Witness ==
    /\ ret.op = "extract"
    /\ Matched
    /\ DOMAIN ret.result # FieldKeySet
    /\ ret.result # LastReplayed
    /\ \E key \in FieldKeySet \ DOMAIN ret.result : ~HasMarker(LastReplayed[key])

\* the lowercased whitespace tokens two texts share
CommonTokens(a, b) == SplitSet(lower(a)) \cap SplitSet(lower(b))

\* a corrected value that is a resolved value for a field
ResolvedValue(value, key) ==
    value # <<>> /\ value # NotFoundMessage[key] /\ ~HasMarker(value)

\* the records that can fill a field of a document: their corrected value for
\* the field is resolved and their full source text shares at least 5 tokens
\* with the text
Fillers(history, key, text) ==
    {k \in 1..Len(history) :
        /\ ResolvedValue(GetOrEmpty(history[k].corrected, key), key)
        /\ Cardinality(CommonTokens(history[k].text_full, text)) >= MinCommonWords}

\* C23: per-field replay fills every unresolved field: a field that carries
\* its not-found message in the draft gets the corrected value of the first
\* record in log order whose value for the field is resolved and whose full
\* source text shares at least 5 lowercased tokens with the current text.
C23_ReplayFills ==
    ret.op = "_apply_learned_patterns" =>
        \A key \in FieldKeySet :
            (ret.entities[key] = NotFoundMessage[key]
             /\ Fillers(mem[ret.inst], key, Normalize(ret.text)) # {})
            => ret.result[key] =
                 mem[ret.inst][CHOOSE k \in Fillers(mem[ret.inst], key, Normalize(ret.text)) :
                                 \A j \in Fillers(mem[ret.inst], key, Normalize(ret.text)) : k <= j
                              ].corrected[key]

\* C30: per-field replay never makes a result worse: every value it writes is
\* one the marker test does not classify as not found, so the fields resolved
\* in the draft are resolved afterwards, whatever the log holds.
C30_ReplayNeverWorse ==
    ret.op = "_apply_learned_patterns" =>
        /\ DOMAIN ret.result = DOMAIN ret.entities
        /\ \A key \in DOMAIN ret.entities :
              /\ ret.result[key] # ret.entities[key] => ~HasMarker(ret.result[key])
              /\ ~HasMarker(ret.entities[key]) => ~HasMarker(ret.result[key])

\* per-field replay wrote a field from a log that also holds, for another
\* unresolved field of the draft, a value with a marker and enough common
\* tokens, which it did not write
C30_Witness ==
    /\ ret.op = "_apply_learned_patterns"
    /\ \E key \in FieldKeySet : ret.result[key] # ret.entities[key]
    /\ \E key \in FieldKeySet, k \in 1..Len(mem[ret.inst]) :
          /\ HasMarker(ret.entities[key])
          /\ HasMarker(GetOrEmpty(mem[ret.inst][k].corrected, key))
          /\ GetOrEmpty(mem[ret.inst][k].corrected, key) # ret.entities[key]
          /\ Cardinality(CommonTokens(mem[ret.inst][k].text_snippet, Normalize(ret.text)))
                >= MinCommonWords


\* C29: a record of the log never changes once appended: while the instance
\* runs, every record keeps its position, its original mapping, its corrected
\* mapping and its source text, also when a caller assigns to the mapping a
\* whole-record match handed it or to the mappings it passed to
\* save_correction.
C29_RecordsImmutable ==
    [][(up[1] /\ up'[1]) =>
          \A k \in 1..Len(mem[1]) :
              /\ Len(mem'[1]) >= k
              /\ mem'[1][k] = mem[1][k]]_vars

====
